---- MODULE Spec2Model ----
(***************************************************************************)
(* lado: the diff assembly and annotation pipeline.                        *)
(*                                                                         *)
(* Strings on which the code computes (paths, names, hunk headers, line    *)
(* contents, timestamps, colours) are sequences of character codes, so     *)
(* that split, join, trim, lower-casing, slicing and hex conversion are    *)
(* computed as the code computes them.  Enum values, commit ids and the    *)
(* window's line-type labels are TLA+ strings.                             *)
(* Option<T> is a sequence of length at most one.                          *)
(***************************************************************************)
EXTENDS Integers, Sequences, FiniteSets, TLC

VARIABLES
    diff_data,        \* the DiffData the view is computed from (App.diff_data / the handler's local)
    all_pr_comments,  \* App.all_pr_comments: the review comments as fetched
    pr_comments,      \* App.pr_comments: Option<FileComments>
    syntect_err,      \* the code lines (by index) on which syntect's highlight_line returns Err
    selected_file,    \* window.selected_file
    lines,            \* window.lines
    input_files,      \* the changed-file list handed to build_file_tree
    tree,             \* the tree build_file_tree returned last
    files,            \* window.files: the flattened tree
    prev_files,       \* the flattened tree of the previous build of the same file set
    runs,             \* number of builds made so far
    target,           \* App.target: the DiffTarget
    repo,             \* what the git repository holds: branches, objects, HEAD
    gh,               \* what the gh CLI answers for the pull request
    pr_commits,       \* App.pr_commits
    pr_base_ref,      \* App.pr_base_ref: Option<String>
    pr_head_ref,      \* App.pr_head_ref: Option<String>
    commits,          \* window.commits
    diff_title,       \* window.diff_title
    args,             \* Args.target: Option<String>, until DiffTarget::parse read it
    phase,            \* "args" before the target is parsed, "new" before App::new loads,
                      \* then "running" or "failed"
    error,            \* the error App::new returned to main, if any
    warnings,         \* the warnings written to stderr
    last_event        \* the last load or commit selection and the diff_commits call it made

vars == <<diff_data, all_pr_comments, pr_comments, syntect_err, selected_file, lines,
          input_files, tree, files, prev_files, runs,
          target, repo, gh, pr_commits, pr_base_ref, pr_head_ref, commits, diff_title,
          args, phase, error, warnings, last_event>>

app_vars == <<target, repo, gh, pr_commits, pr_base_ref, pr_head_ref, commits, diff_title,
              args, phase, error, warnings, last_event>>

----------------------------------------------------------------------------
(* Option and sequence helpers *)

None == <<>>
Some(x) == <<x>>

Range(s) == {s[i] : i \in 1..Len(s)}

SeqsUpTo(S, n) == UNION {[1..k -> S] : k \in 0..n}

RECURSIVE Concat(_)
Concat(ss) == IF ss = <<>> THEN <<>> ELSE Head(ss) \o Concat(Tail(ss))

RECURSIVE SumSeq(_)
SumSeq(s) == IF s = <<>> THEN 0 ELSE Head(s) + SumSeq(Tail(s))

----------------------------------------------------------------------------
(* Characters *)

LF == 10
SLASH == 47
DOT == 46
HASH == 35
SPACE == 32

\* char::is_whitespace on the ASCII range
IsWhitespace(c) == c \in {9, 10, 11, 12, 13, 32}

\* str::trim_end
RECURSIVE trim_end(_)
trim_end(s) ==
    IF s = <<>> THEN <<>>
    ELSE IF IsWhitespace(s[Len(s)]) THEN trim_end(SubSeq(s, 1, Len(s) - 1))
    ELSE s

\* u32::to_string
RECURSIVE to_string(_)
to_string(n) ==
    IF n < 10 THEN <<48 + n>> ELSE to_string(n \div 10) \o <<48 + (n % 10)>>

\* [&str]::join(sep)
RECURSIVE join(_, _)
join(parts, sep) ==
    IF parts = <<>> THEN <<>>
    ELSE IF Len(parts) = 1 THEN parts[1]
    ELSE parts[1] \o sep \o join(Tail(parts), sep)

\* str::split(sep): always at least one piece
RECURSIVE SplitAcc(_, _, _)
SplitAcc(s, sep, cur) ==
    IF s = <<>> THEN <<cur>>
    ELSE IF Head(s) = sep THEN <<cur>> \o SplitAcc(Tail(s), sep, <<>>)
    ELSE SplitAcc(Tail(s), sep, Append(cur, Head(s)))

split(s, sep) == SplitAcc(s, sep, <<>>)

----------------------------------------------------------------------------
(* highlighting/syntax.rs and models/span_model.rs *)

\* syntect's LinesWithEndings: the lines of code, each with its line ending
RECURSIVE LinesAcc(_, _)
LinesAcc(s, cur) ==
    IF s = <<>> THEN (IF cur = <<>> THEN <<>> ELSE <<cur>>)
    ELSE IF Head(s) = LF THEN <<Append(cur, LF)>> \o LinesAcc(Tail(s), <<>>)
    ELSE LinesAcc(Tail(s), Append(cur, Head(s)))

LinesWithEndings(code) == LinesAcc(code, <<>>)

\* file_path.rsplit('.').next().unwrap_or("")
extension_of(file_path) == LET parts == split(file_path, DOT) IN parts[Len(parts)]

\* SyntaxSet::find_syntax_by_extension, falling back to find_syntax_plain_text
\* (the syntax set knows the extension "rs")
find_syntax(extension) == IF extension = <<114, 115>> THEN "Rust" ELSE "Plain Text"

\* the theme's foreground colours (base16-ocean.dark)
FgText == [r |-> 192, g |-> 197, b |-> 206]
FgString == [r |-> 163, g |-> 190, b |-> 140]

\* syntect's HighlightLines::highlight_line, an external tokenizer that keeps its
\* parse state from line to line: here a string literal opened by a quote stays
\* open, across lines, until the next quote (34).  Gives [ranges, in_string].
RECURSIVE ScanLine(_, _, _, _)
ScanLine(syntax, line, in_string, ranges) ==
    IF line = <<>> THEN [ranges |-> ranges, in_string |-> in_string]
    ELSE LET c == Head(line)
             quoted == syntax = "Rust" /\ (in_string \/ c = 34)
             after == IF syntax = "Rust" /\ c = 34 THEN ~in_string ELSE in_string
             style == IF quoted THEN FgString ELSE FgText
             n == Len(ranges)
             grown == IF n > 0 /\ ranges[n].style = style
                      THEN [ranges EXCEPT ![n].text = Append(@, c)]
                      ELSE Append(ranges, [style |-> style, text |-> <<c>>])
         IN ScanLine(syntax, Tail(line), after, grown)

highlight_line(syntax, line, in_string) == ScanLine(syntax, line, in_string, <<>>)

HexDigit(d) == IF d < 10 THEN 48 + d ELSE 87 + d

\* format!("#{:02x}{:02x}{:02x}", r, g, b)
format_color(fg) ==
    <<HASH, HexDigit(fg.r \div 16), HexDigit(fg.r % 16),
            HexDigit(fg.g \div 16), HexDigit(fg.g % 16),
            HexDigit(fg.b \div 16), HexDigit(fg.b % 16)>>

\* the loop of SyntaxHighlighter::highlight over the lines; idx counts the lines
RECURSIVE HighlightLoop(_, _, _, _)
HighlightLoop(syntax, code_lines, idx, in_string) ==
    IF code_lines = <<>> THEN <<>>
    ELSE LET failed == idx \in syntect_err
             scan == highlight_line(syntax, Head(code_lines), in_string)
             \* .unwrap_or_default(): an Err gives no ranges
             ranges == IF failed THEN <<>> ELSE scan.ranges
             spans == [i \in 1..Len(ranges) |->
                          [text |-> ranges[i].text, color |-> format_color(ranges[i].style)]]
         IN <<[spans |-> spans]>>
            \o HighlightLoop(syntax, Tail(code_lines), idx + 1,
                             IF failed THEN in_string ELSE scan.in_string)

\* SyntaxHighlighter::highlight
highlight(code, file_path) ==
    HighlightLoop(find_syntax(extension_of(file_path)), LinesWithEndings(code), 1, FALSE)

\* str::trim_start_matches('#')
RECURSIVE trim_start_hash(_)
trim_start_hash(s) ==
    IF s # <<>> /\ Head(s) = HASH THEN trim_start_hash(Tail(s)) ELSE s

\* one hexadecimal digit's value, -1 when c is no hexadecimal digit
HexValue(c) ==
    IF c \in 48..57 THEN c - 48
    ELSE IF c \in 97..102 THEN c - 87
    ELSE IF c \in 65..70 THEN c - 55
    ELSE -1

\* u8::from_str_radix(two, 16).unwrap_or(255), two being two characters
from_str_radix_or_255(two) ==
    IF two[1] = 43 /\ HexValue(two[2]) >= 0 THEN HexValue(two[2])
    ELSE IF HexValue(two[1]) >= 0 /\ HexValue(two[2]) >= 0
         THEN 16 * HexValue(two[1]) + HexValue(two[2])
    ELSE 255

\* parse_hex_color
parse_hex_color(hex) ==
    LET h == trim_start_hash(hex)
    IN IF Len(h) >= 6
       THEN [r |-> from_str_radix_or_255(SubSeq(h, 1, 2)),
             g |-> from_str_radix_or_255(SubSeq(h, 3, 4)),
             b |-> from_str_radix_or_255(SubSeq(h, 5, 6))]
       ELSE [r |-> 255, g |-> 255, b |-> 255]

\* TextSpanModel::new(s.text, parse_hex_color(&s.color)) over a highlighted line
SpansOf(hl_line) ==
    [i \in 1..Len(hl_line.spans) |->
        [text |-> hl_line.spans[i].text, color |-> parse_hex_color(hl_line.spans[i].color)]]

----------------------------------------------------------------------------
(* github.rs: review comments *)

\* Option<u32>::cmp = Less: None sorts before every Some
OptLess(a, b) == (a = None /\ b # None) \/ (a # None /\ b # None /\ a[1] < b[1])

comment_less_newest_first(a, b) == OptLess(a.line, b.line) \/ (a.line = b.line /\ a.id > b.id)

\* the comparator of group_comments_by_file's sort_by, as "a sorts before b"
comment_less(a, b) == OptLess(a.line, b.line) \/ (a.line = b.line /\ a.id < b.id)

\* slice::sort_by is stable: x goes in after every element that does not sort after it
RECURSIVE InsertComment(_, _)
InsertComment(sorted, x) ==
    IF sorted = <<>> THEN <<x>>
    ELSE IF comment_less(x, Head(sorted)) THEN <<x>> \o sorted
    ELSE <<Head(sorted)>> \o InsertComment(Tail(sorted), x)

RECURSIVE sort_comments(_)
sort_comments(s) ==
    IF s = <<>> THEN <<>>
    ELSE InsertComment(sort_comments(SubSeq(s, 1, Len(s) - 1)), s[Len(s)])

CommentsOfPath_caseless(comments, p) ==
    SelectSeq(comments, LAMBDA c : Len(c.path) = Len(p)
                                   /\ \A i \in 1..Len(p) : c.path[i] % 32 = p[i] % 32)
CommentsOfPath(comments, p) == SelectSeq(comments, LAMBDA c : c.path = p)

\* group_comments_by_file: FileComments is a map from path to the sorted comments
group_comments_by_file(comments) ==
    [p \in {comments[i].path : i \in 1..Len(comments)} |->
        sort_comments(CommentsOfPath(comments, p))]

\* HashMap::get
MapGet(m, k) == IF k \in DOMAIN m THEN Some(m[k]) ELSE None

----------------------------------------------------------------------------
(* app.rs: get_lines_for_file, and models/diff_model.rs *)

CodeTypes == {"Add", "Remove", "Context"}

\* matches!(line_type, Add | Remove | Context)
is_code_line(l) == l.line_type \in CodeTypes

\* format_timestamp
format_timestamp(timestamp) ==
    IF Len(timestamp) >= 16
    THEN SubSeq(timestamp, 1, 10) \o <<SPACE>> \o SubSeq(timestamp, 12, 16)
    ELSE timestamp

\* the &str of a DiffLineType in DiffLineModel::from
line_type_str(t) ==
    CASE t = "Add" -> "add"
      [] t = "Remove" -> "remove"
      [] t = "Context" -> "context"
      [] t = "Hunk" -> "hunk"
      [] t = "Comment" -> "comment"

\* Option<u32>.map(|n| n.to_string()).unwrap_or_default()
line_num_str(n) == IF n = None THEN <<>> ELSE to_string(n[1])

\* DiffLineModel::from(&DiffLine), then into the window's DiffLine
DiffLineModel_from(line) ==
    [line_type |-> line_type_str(line.line_type),
     old_line_num |-> line_num_str(line.old_line_num),
     new_line_num |-> line_num_str(line.new_line_num),
     content |-> line.content,
     spans |-> <<>>,
     comment_author |-> IF line.comment = None THEN <<>> ELSE line.comment[1].author,
     comment_body |-> IF line.comment = None THEN <<>> ELSE line.comment[1].body,
     comment_timestamp |-> IF line.comment = None THEN <<>> ELSE line.comment[1].timestamp,
     comment_is_reply |-> IF line.comment = None THEN FALSE ELSE line.comment[1].is_reply]

\* header_line without the trim
header_line_untrimmed(hunk) ==
    [line_type |-> "Hunk", old_line_num |-> None, new_line_num |-> None,
     content |-> hunk.header, comment |-> None]

\* the synthetic hunk header line
header_line(hunk) ==
    [line_type |-> "Hunk", old_line_num |-> None, new_line_num |-> None,
     content |-> trim_end(hunk.header), comment |-> None]

\* hunks.into_iter().flat_map(|hunk| once(header_line).chain(hunk.lines)).collect()
RECURSIVE flatten_hunks(_)
flatten_hunks(hunks) ==
    IF hunks = <<>> THEN <<>>
    ELSE <<header_line(Head(hunks))>> \o Head(hunks).lines \o flatten_hunks(Tail(hunks))

\* is_match with the sides exchanged
is_match_sides_swapped(comment, diff_line) ==
    IF comment.line # None
    THEN IF comment.side = "Right"
         THEN diff_line.old_line_num = Some(comment.line[1])
         ELSE diff_line.new_line_num = Some(comment.line[1])
    ELSE FALSE

\* is_match comparing the two options without looking at the comment's line first
is_match_options_compared(comment, diff_line) ==
    IF comment.side = "Right"
    THEN diff_line.new_line_num = comment.line
    ELSE diff_line.old_line_num = comment.line

\* the match rule of the comment loop
is_match(comment, diff_line) ==
    IF comment.line # None
    THEN IF comment.side = "Right"
         THEN diff_line.new_line_num = Some(comment.line[1])
         ELSE diff_line.old_line_num = Some(comment.line[1])
    ELSE FALSE

\* the synthetic comment line
comment_line(comment) ==
    [line_type |-> "Comment", old_line_num |-> None, new_line_num |-> None,
     content |-> <<>>,
     comment |-> Some([author |-> comment.author,
                       body |-> comment.body,
                       timestamp |-> format_timestamp(comment.created_at),
                       is_reply |-> comment.in_reply_to_id # None])]

\* the inner loop leaving at the first match
RECURSIVE comment_lines_first_only(_, _)
comment_lines_first_only(comments, diff_line) ==
    IF comments = <<>> THEN <<>>
    ELSE IF is_match(Head(comments), diff_line)
         THEN <<DiffLineModel_from(comment_line(Head(comments)))>>
         ELSE comment_lines_first_only(Tail(comments), diff_line)

\* the inner loop "for comment in comments": the lines pushed for one diff line
RECURSIVE comment_lines_for(_, _)
comment_lines_for(comments, diff_line) ==
    IF comments = <<>> THEN <<>>
    ELSE (IF is_match(Head(comments), diff_line)
          THEN <<DiffLineModel_from(comment_line(Head(comments)))>>
          ELSE <<>>)
         \o comment_lines_for(Tail(comments), diff_line)

\* an iteration that pushes the comments of a commented line in place of the line
push_line_replaced(result, model, file_comments, diff_line) ==
    LET pushed == IF file_comments # None
                  THEN comment_lines_for(file_comments[1], diff_line)
                  ELSE <<>>
    IN IF pushed = <<>> THEN result \o <<model>> ELSE result \o pushed

\* what one iteration of the outer loop pushes: the line, then its comments
push_line(result, model, file_comments, diff_line) ==
    result \o <<model>>
           \o (IF file_comments # None
               THEN comment_lines_for(file_comments[1], diff_line)
               ELSE <<>>)

\* the spans a line gets: highlight_iter.next() for a code line only
take_spans(diff_line, highlight_iter) ==
    IF is_code_line(diff_line) /\ highlight_iter # <<>>
    THEN SpansOf(Head(highlight_iter))
    ELSE <<>>

\* the iterator advanced by every line, header lines included
advance_iter_every_line(diff_line, highlight_iter) ==
    IF highlight_iter # <<>> THEN Tail(highlight_iter) ELSE highlight_iter

\* the iterator after the line: advanced by a code line only
advance_iter(diff_line, highlight_iter) ==
    IF is_code_line(diff_line) /\ highlight_iter # <<>>
    THEN Tail(highlight_iter)
    ELSE highlight_iter

\* the outer loop "for diff_line in &diff_lines"
RECURSIVE interleave_loop(_, _, _, _)
interleave_loop(diff_lines, highlight_iter, file_comments, result) ==
    IF diff_lines = <<>> THEN result
    ELSE LET diff_line == Head(diff_lines)
             model == [DiffLineModel_from(diff_line) EXCEPT
                          !.spans = take_spans(diff_line, highlight_iter)]
         IN interleave_loop(Tail(diff_lines),
                            advance_iter(diff_line, highlight_iter),
                            file_comments,
                            push_line(result, model, file_comments, diff_line))

\* content_lines joined with "\n", plus "\n"
full_content_of(diff_lines) ==
    LET content_lines == SelectSeq(diff_lines, is_code_line)
    IN join([i \in 1..Len(content_lines) |-> content_lines[i].content], <<LF>>) \o <<LF>>

\* the lookup falling back to some file's comments when the path has none
file_comments_any_path(comments, path) ==
    IF comments = None THEN None
    ELSE IF path \in DOMAIN comments[1] THEN Some(comments[1][path])
    ELSE IF DOMAIN comments[1] = {} THEN None
    ELSE Some(comments[1][CHOOSE p \in DOMAIN comments[1] : TRUE])

\* comments.and_then(|c| c.get(path))
file_comments_of(comments, path) ==
    IF comments = None THEN None ELSE MapGet(comments[1], path)

\* data.file_hunks.get(path).cloned().unwrap_or_default()
hunks_of(data, path) ==
    IF path \in DOMAIN data.file_hunks THEN data.file_hunks[path] ELSE <<>>

\* get_lines_for_file
get_lines_for_file(data, path, comments) ==
    LET diff_lines == flatten_hunks(hunks_of(data, path))
        highlighted_lines == highlight(full_content_of(diff_lines), path)
    IN interleave_loop(diff_lines, highlighted_lines, file_comments_of(comments, path), <<>>)

----------------------------------------------------------------------------
(* git/repository.rs: diff_commits, over what libgit2 reports *)

\* str::trim_end_matches('\n')
RECURSIVE trim_end_newlines(_)
trim_end_newlines(s) ==
    IF s # <<>> /\ s[Len(s)] = LF THEN trim_end_newlines(SubSeq(s, 1, Len(s) - 1)) ELSE s

\* the line callback's DiffLine: the type from the origin character
\* ('+' 43, '-' 45, ' ' 32, anything else, such as '>' 62, is Context)
diff_line_of(git_line) ==
    [line_type |-> IF git_line.origin = 43 THEN "Add"
                   ELSE IF git_line.origin = 45 THEN "Remove"
                   ELSE "Context",
     old_line_num |-> git_line.old_lineno,
     new_line_num |-> git_line.new_lineno,
     content |-> trim_end_newlines(git_line.content),
     comment |-> None]

\* the hunk callback's DiffHunk with the lines the line callback pushed on it
diff_hunk_of(git_hunk) ==
    [header |-> git_hunk.header,
     old_start |-> git_hunk.old_start,
     new_start |-> git_hunk.new_start,
     lines |-> [i \in 1..Len(git_hunk.lines) |-> diff_line_of(git_hunk.lines[i])]]

CountType(hunks, t) ==
    SumSeq([i \in 1..Len(hunks) |->
               Len(SelectSeq(hunks[i].lines, LAMBDA l : l.line_type = t))])

\* the file callback's FileChange with the statistics the line callback adds
file_change_of(path, status, hunks) ==
    [path |-> path, status |-> status,
     additions |-> CountType(hunks, "Add"), deletions |-> CountType(hunks, "Remove")]

\* the text of the two snapshots' lines, with their line endings
OldText(j) == IF j % 2 = 1 THEN <<34, LF>> ELSE <<LF>>
NewText(k) == IF k % 3 = 1 THEN <<97, LF>> ELSE IF k % 3 = 2 THEN <<98, LF>> ELSE <<34, 99, LF>>

\* libgit2's numbering of a hunk's lines: an added line counts on the new side, a
\* removed one on the old side, a context line on both, and the marker line
\* "\ No newline at end of file" of the new side ('>' 62) on neither
RECURSIVE Git2Lines(_, _, _)
Git2Lines(origins, old, new) ==
    IF origins = <<>> THEN <<>>
    ELSE LET o == Head(origins)
         IN IF o = 43
            THEN <<[origin |-> o, old_lineno |-> None, new_lineno |-> Some(new),
                    content |-> NewText(new)]>> \o Git2Lines(Tail(origins), old, new + 1)
            ELSE IF o = 45
            THEN <<[origin |-> o, old_lineno |-> Some(old), new_lineno |-> None,
                    content |-> OldText(old)]>> \o Git2Lines(Tail(origins), old + 1, new)
            ELSE IF o = 32
            THEN <<[origin |-> o, old_lineno |-> Some(old), new_lineno |-> Some(new),
                    content |-> NewText(new)]>> \o Git2Lines(Tail(origins), old + 1, new + 1)
            ELSE <<[origin |-> o, old_lineno |-> None, new_lineno |-> None,
                    content |-> <<LF, 92, LF>>]>> \o Git2Lines(Tail(origins), old, new)

CountOrigins(origins, S) == Len(SelectSeq(origins, LAMBDA o : o \in S))

\* libgit2's hunk header "@@ -old +new @@" with its line ending
Git2Header(old, new) ==
    <<64, 64, SPACE, 45>> \o to_string(old) \o <<SPACE, 43>> \o to_string(new)
        \o <<SPACE, 64, 64, LF>>

\* libgit2's hunks of one file, from the origins of each hunk's lines
RECURSIVE Git2Hunks(_, _, _)
Git2Hunks(shape, old, new) ==
    IF shape = <<>> THEN <<>>
    ELSE <<[header |-> Git2Header(old, new), old_start |-> old, new_start |-> new,
            lines |-> Git2Lines(Head(shape), old, new)]>>
         \o Git2Hunks(Tail(shape),
                      old + CountOrigins(Head(shape), {45, 32}),
                      new + CountOrigins(Head(shape), {43, 32}))

\* the two changed files of the interleaver's diff: "m.rs", whose hunks have the
\* given shape, and "b", changed without any hunk (a binary or mode-only change)
MainPath == <<109, 46, 114, 115>>
BarePath == <<98>>

\* diff_commits' DiffData for that diff
DiffDataOf(shape) ==
    LET hunks == [i \in 1..Len(shape) |-> diff_hunk_of(Git2Hunks(shape, 1, 1)[i])]
    IN [files |-> <<file_change_of(MainPath, "Modified", hunks),
                    file_change_of(BarePath, "Modified", <<>>)>>,
        file_hunks |-> IF hunks = <<>> THEN <<>> ELSE (MainPath :> hunks)]

----------------------------------------------------------------------------
(* The interleaver's inputs *)

MaxHunks == 2
MaxHunkLines == 2
MaxComments == 2

\* the origins libgit2 reports: '+', '-', ' ' and '>' (no newline at end of file)
Origins == {43, 45, 32, 62}

HunkShapes == SeqsUpTo(SeqsUpTo(Origins, MaxHunkLines), MaxHunks)

\* "2024-01-15T10:30:00Z"
Timestamp == <<50, 48, 50, 52, 45, 48, 49, 45, 49, 53, 84, 49, 48, 58, 51, 48, 58, 48, 48, 90>>

\* review comments as get_pr_comments builds them; ids and bodies are distinct
Comment(id, reply, path, line, side, created_at, original) ==
    [id |-> id, in_reply_to_id |-> reply, path |-> path, line |-> line, side |-> side,
     body |-> <<48 + id>>, author |-> <<97, 110, 110>>, created_at |-> created_at,
     commit_id |-> "b", original_commit_id |-> original]

CommentUniverse ==
    {Comment(1, None, MainPath, Some(2), "Right", Timestamp, "a"),
     Comment(2, None, MainPath, Some(1), "Left", Timestamp, "b"),
     Comment(3, None, MainPath, None, "Right", Timestamp, "a"),
     Comment(4, Some(1), MainPath, Some(2), "Right", <<>>, "b"),
     Comment(5, None, BarePath, Some(1), "Right", Timestamp, "b")}

\* lists of distinct comments, in any order
CommentLists ==
    {cs \in SeqsUpTo(CommentUniverse, MaxComments) :
        \A i, j \in 1..Len(cs) : i # j => cs[i] # cs[j]}

\* an App on the default branch, loaded, with no pull request data
AppIdle ==
    /\ target = [kind |-> "DefaultBranch", name |-> "", number |-> 0]
    /\ repo = [direct |-> <<>>, local |-> <<>>, remote |-> <<>>, objects |-> <<>>,
               origin |-> FALSE, head |-> None, commits |-> {}]
    /\ gh = [info |-> [ok |-> FALSE, error |-> "gh"], commits |-> [ok |-> FALSE, error |-> "gh"],
             comments |-> [ok |-> FALSE, error |-> "gh"]]
    /\ pr_commits = <<>>
    /\ pr_base_ref = None
    /\ pr_head_ref = None
    /\ commits = <<>>
    /\ diff_title = [text |-> "HEAD vs", ref |-> "main", number |-> 0, title |-> ""]
    /\ args = None
    /\ phase = "running"
    /\ error = None
    /\ warnings = {}
    /\ last_event = [kind |-> "load", idx |-> 0, call |-> None]

TreeIdle ==
    /\ input_files = <<>>
    /\ tree = <<>>
    /\ files = <<>>
    /\ prev_files = None
    /\ runs = 0

\* a loaded view: the diff, the fetched comments (none and no map when the target
\* is no pull request), and nothing selected yet
InitLines ==
    /\ \E shape \in HunkShapes : diff_data = DiffDataOf(shape)
    /\ all_pr_comments \in CommentLists
    /\ pr_comments \in {Some(group_comments_by_file(all_pr_comments))}
                         \cup (IF all_pr_comments = <<>> THEN {None} ELSE {})
    /\ syntect_err \in {{}, {1}}
    /\ selected_file = <<>>
    /\ lines = <<>>
    /\ TreeIdle
    /\ AppIdle

\* the file selection callback
on_file_selected(path) ==
    /\ lines' = get_lines_for_file(diff_data, path, pr_comments)
    /\ selected_file' = path
    /\ UNCHANGED <<diff_data, all_pr_comments, pr_comments, syntect_err,
                   input_files, tree, files, prev_files, runs>>
    /\ UNCHANGED app_vars

\* the settings callback: the selected file is highlighted again
on_settings_changed ==
    /\ selected_file # <<>>
    /\ lines' = get_lines_for_file(diff_data, selected_file, pr_comments)
    /\ UNCHANGED <<diff_data, all_pr_comments, pr_comments, syntect_err, selected_file,
                   input_files, tree, files, prev_files, runs>>
    /\ UNCHANGED app_vars

NextLines ==
    \/ \E i \in 1..Len(diff_data.files) : on_file_selected(diff_data.files[i].path)
    \/ on_settings_changed

SpecLines == InitLines /\ [][NextLines]_vars

----------------------------------------------------------------------------
(* The interleaver's claims.  They relate the window's lines to the inputs *)
(* of the selected file: its hunks in diff_data, its group in pr_comments. *)

Shown == selected_file # <<>>

InHunks ==
    IF selected_file \in DOMAIN diff_data.file_hunks
    THEN diff_data.file_hunks[selected_file] ELSE <<>>

\* the input's code lines, in hunk order
InCode == Concat([i \in 1..Len(InHunks) |-> InHunks[i].lines])

\* the input's headers and code lines, a header marked by its hunk's index
InAll ==
    Concat([i \in 1..Len(InHunks) |->
               <<[line_type |-> "Hunk", hunk |-> i]>> \o InHunks[i].lines])

Grouped ==
    IF pr_comments # None /\ selected_file \in DOMAIN pr_comments[1]
    THEN pr_comments[1][selected_file] ELSE <<>>

IsOutCode(l) == l.line_type \in {"add", "remove", "context"}
OutCode == SelectSeq(lines, IsOutCode)
OutNonComment == SelectSeq(lines, LAMBDA l : l.line_type # "comment")
OutHeaders == SelectSeq(lines, LAMBDA l : l.line_type = "hunk")

NumShown(n) == IF n = None THEN <<>> ELSE to_string(n[1])

\* the output line o shows the input code line x
ShowsLine(o, x) ==
    /\ o.line_type = (CASE x.line_type = "Add" -> "add"
                        [] x.line_type = "Remove" -> "remove"
                        [] x.line_type = "Context" -> "context")
    /\ o.old_line_num = NumShown(x.old_line_num)
    /\ o.new_line_num = NumShown(x.new_line_num)
    /\ o.content = x.content
    /\ o.comment_body = <<>>

\* the match rule as the specification words it
Matches(c, x) ==
    /\ c.line # None
    /\ \/ c.side = "Right" /\ x.new_line_num = c.line
       \/ c.side = "Left" /\ x.old_line_num = c.line

\* the number of header and code lines among the first i output lines
NonCommentsUpTo(i) == Cardinality({j \in 1..i : lines[j].line_type # "comment"})

\* the Comment lines directly after the k-th header or code line of the output
BlockAfter(k) ==
    {j \in 1..Len(lines) : lines[j].line_type = "comment" /\ NonCommentsUpTo(j) = k}

\* C1: removing the Comment lines from the interleaver's output gives exactly the
\* output produced with no comments at all, and the Add/Remove/Context lines are
\* the input hunks' lines in the same order, none reordered, dropped or duplicated.
C1_CommentsKeepCodeOrder ==
    Shown =>
        /\ OutNonComment = get_lines_for_file(diff_data, selected_file, None)
        /\ Len(OutCode) = Len(InCode)
        /\ \A k \in 1..Len(InCode) : ShowsLine(OutCode[k], InCode[k])
        /\ Len(OutHeaders) = Len(InHunks)

C1_Witness ==
    /\ Shown
    /\ \E i, j, k \in 1..Len(lines) :
        /\ i < j /\ j < k
        /\ IsOutCode(lines[i]) /\ lines[j].line_type = "comment" /\ IsOutCode(lines[k])

\* C2: a Comment line for comment c of the file's group is emitted directly after
\* the code line X, before the next code or header line, if and only if c.line is
\* set and c is on the Right with X.new_line_num = c.line or on the Left with
\* X.old_line_num = c.line; no Comment line follows a header, and every Comment
\* line is that of a comment of the group.
C2_MatchRule ==
    Shown =>
        /\ Len(OutNonComment) = Len(InAll)
        /\ \A k \in 1..Len(InAll) : \A c \in Range(Grouped) :
              (\E j \in BlockAfter(k) : lines[j].comment_body = c.body)
                  <=> (InAll[k].line_type # "Hunk" /\ Matches(c, InAll[k]))
        /\ \A j \in 1..Len(lines) :
              lines[j].line_type = "comment" =>
                  /\ NonCommentsUpTo(j) >= 1
                  /\ \E c \in Range(Grouped) : lines[j].comment_body = c.body

\* a Right comment emitted after its line, while another line carries its number
\* on the old side only and gets no Comment line for it
C2_Witness ==
    /\ Shown
    /\ \E c \in Range(Grouped) : \E k, m \in 1..Len(InAll) :
        /\ c.side = "Right" /\ c.line # None
        /\ InAll[k].line_type # "Hunk" /\ InAll[k].new_line_num = c.line
        /\ \E j \in BlockAfter(k) : lines[j].comment_body = c.body
        /\ InAll[m].line_type # "Hunk"
        /\ InAll[m].old_line_num = c.line /\ InAll[m].new_line_num # c.line
        /\ \A j \in BlockAfter(m) : lines[j].comment_body # c.body

\* C3: a review comment without a line is kept in its file's group by
\* group_comments_by_file and never produces a Comment line, whatever the hunks
\* (whose header lines have neither line number).
C3_NoLineNeverShown ==
    \A i \in 1..Len(all_pr_comments) :
        LET c == all_pr_comments[i]
        IN c.line = None =>
            /\ pr_comments # None
            /\ c.path \in DOMAIN pr_comments[1]
            /\ Cardinality({n \in 1..Len(pr_comments[1][c.path]) :
                               pr_comments[1][c.path][n] = c}) = 1
            /\ \A j \in 1..Len(lines) : lines[j].comment_body # c.body

C3_Witness ==
    /\ Shown
    /\ \E c \in Range(Grouped) : c.line = None
    /\ \E j \in 1..Len(lines) : lines[j].line_type = "comment"
    /\ \E j \in 1..Len(lines) : lines[j].line_type = "hunk"

\* the output header o shows hunk h: its header text without the trailing
\* whitespace, and no line number
ShowsHeader(o, h) ==
    /\ o.line_type = "hunk"
    /\ Len(o.content) <= Len(h.header)
    /\ o.content = SubSeq(h.header, 1, Len(o.content))
    /\ \A i \in (Len(o.content) + 1)..Len(h.header) : IsWhitespace(h.header[i])
    /\ o.content # <<>> => ~IsWhitespace(o.content[Len(o.content)])
    /\ o.old_line_num = <<>>
    /\ o.new_line_num = <<>>

\* one header per hunk, directly before the hunk's lines, in hunk order
HeadersInPlace ==
    /\ Len(OutNonComment) = Len(InAll)
    /\ \A k \in 1..Len(InAll) :
          IF InAll[k].line_type = "Hunk"
          THEN ShowsHeader(OutNonComment[k], InHunks[InAll[k].hunk])
          ELSE ShowsLine(OutNonComment[k], InAll[k])

BeginsWithHeader == lines # <<>> /\ lines[1].line_type = "hunk"

\* C4 as claimed: for any hunk sequence the output begins with a HunkHeader line
\* and holds one trimmed, numberless header per hunk directly before its lines.
C4_Original == Shown => (BeginsWithHeader /\ HeadersInPlace)

\* C4 as amended: the output holds exactly one HunkHeader per input hunk, directly
\* before that hunk's lines, in hunk order, with the header text trimmed of
\* trailing whitespace and no line number; it begins with a HunkHeader line
\* whenever the file has at least one hunk, and is empty when it has none.
C4_HeadersPerHunk ==
    Shown =>
        /\ HeadersInPlace
        /\ InHunks # <<>> => BeginsWithHeader
        /\ InHunks = <<>> => lines = <<>>

C4_Witness ==
    /\ Shown
    /\ Len(InHunks) = 2
    /\ InHunks[1].lines # <<>> /\ InHunks[2].lines # <<>>
    /\ \E j \in 1..Len(lines) : lines[j].line_type = "comment"
    /\ Len(OutHeaders[1].content) < Len(InHunks[1].header)

\* the (code line, comment) pairs that satisfy the match rule
MatchingPairs ==
    {<<k, n>> \in (1..Len(InCode)) \X (1..Len(Grouped)) : Matches(Grouped[n], InCode[k])}

\* the scenario of the specification: one hunk [Context 1/1, Add new 2], one
\* comment on line 2 of the Right side
IsScenario ==
    /\ Len(InHunks) = 1
    /\ Len(InCode) = 2
    /\ InCode[1].line_type = "Context"
    /\ InCode[1].old_line_num = Some(1) /\ InCode[1].new_line_num = Some(1)
    /\ InCode[2].line_type = "Add" /\ InCode[2].new_line_num = Some(2)
    /\ Len(Grouped) = 1
    /\ Grouped[1].line = Some(2) /\ Grouped[1].side = "Right"

\* C5: the output's length is the number of hunks plus the number of input code
\* lines plus the number of (code line, comment) pairs satisfying the match rule;
\* the scenario gives exactly [HunkHeader, Context, Add, Comment].
C5_OutputLength ==
    Shown =>
        /\ Len(lines) = Len(InHunks) + Len(InCode) + Cardinality(MatchingPairs)
        /\ IsScenario =>
              [i \in 1..Len(lines) |-> lines[i].line_type]
                  = <<"hunk", "context", "add", "comment">>

C5_Witness == Shown /\ IsScenario /\ Len(lines) = 4

\* what the highlighter returns for the newline-joined code contents
Highlighted ==
    highlight(join([k \in 1..Len(InCode) |-> InCode[k].content], <<LF>>) \o <<LF>>,
              selected_file)

\* the window's span list s is the highlighter's span list h
SameSpans(s, h) ==
    /\ Len(s) = Len(h)
    /\ \A i \in 1..Len(h) : s[i].text = h[i].text /\ format_color(s[i].color) = h[i].color

\* C7: the k-th Add/Remove/Context line of the output carries the span list of the
\* k-th line the highlighter returns for the newline-joined code contents, and
\* HunkHeader and Comment lines carry no span.
C7_SpansZipped ==
    Shown =>
        /\ Len(Highlighted) >= Len(OutCode)
        /\ \A k \in 1..Len(OutCode) : SameSpans(OutCode[k].spans, Highlighted[k].spans)
        /\ \A j \in 1..Len(lines) : ~IsOutCode(lines[j]) => lines[j].spans = <<>>

C7_Witness ==
    /\ Shown
    /\ syntect_err = {}
    /\ Len(InHunks) = 2
    /\ Len(OutCode) >= 2
    /\ OutCode[1].spans # OutCode[2].spans
    /\ \E k \in 1..Len(OutCode) : Len(OutCode[k].spans) >= 2
    /\ \E j \in 1..Len(lines) : lines[j].line_type = "comment"

\* C8: the interleaver never fails: without a comment map, or without an entry
\* for the file's path, the output is exactly the headers and code lines; every
\* code line is emitted whatever the highlighter returns, with an empty span list
\* where the highlighter gave no line or no span.
C8_Degrades ==
    Shown =>
        /\ (pr_comments = None \/ selected_file \notin DOMAIN pr_comments[1]) =>
              /\ Len(lines) = Len(InAll)
              /\ \A j \in 1..Len(lines) : lines[j].line_type # "comment"
              /\ HeadersInPlace
        /\ Len(OutCode) = Len(InCode)
        /\ \A k \in 1..Len(OutCode) :
              (k > Len(Highlighted) \/ Highlighted[k].spans = <<>>)
                  => OutCode[k].spans = <<>>

C8_Witness ==
    /\ Shown
    /\ pr_comments = None
    /\ 1 \in syntect_err
    /\ Len(OutCode) >= 2
    /\ OutCode[1].spans = <<>>
    /\ OutCode[2].spans # <<>>

----------------------------------------------------------------------------
(* git/file_tree.rs *)

\* FileStatus::as_str
as_str(status) ==
    CASE status = "Added" -> "added"
      [] status = "Modified" -> "modified"
      [] status = "Deleted" -> "deleted"
      [] status = "Renamed" -> "renamed"

\* char::to_lowercase on the ASCII range, and String::to_lowercase
LowerChar(c) == IF c \in 65..90 THEN c + 32 ELSE c
to_lowercase(s) == [i \in 1..Len(s) |-> LowerChar(s[i])]

\* String::cmp = Less: byte-wise lexicographic
RECURSIVE StrLess(_, _)
StrLess(s, t) ==
    IF t = <<>> THEN FALSE
    ELSE IF s = <<>> THEN TRUE
    ELSE IF Head(s) # Head(t) THEN Head(s) < Head(t)
    ELSE StrLess(Tail(s), Tail(t))

\* sort_tree's comparator with the names compared as they are
node_less_case_sensitive(a, b) ==
    IF a.is_folder /\ ~b.is_folder THEN TRUE
    ELSE IF ~a.is_folder /\ b.is_folder THEN FALSE
    ELSE StrLess(a.name, b.name)

\* sort_tree's comparator, as "a sorts before b"
node_less(a, b) ==
    IF a.is_folder /\ ~b.is_folder THEN TRUE
    ELSE IF ~a.is_folder /\ b.is_folder THEN FALSE
    ELSE StrLess(to_lowercase(a.name), to_lowercase(b.name))

\* slice::sort_by is stable
RECURSIVE InsertNode(_, _)
InsertNode(sorted, x) ==
    IF sorted = <<>> THEN <<x>>
    ELSE IF node_less(x, Head(sorted)) THEN <<x>> \o sorted
    ELSE <<Head(sorted)>> \o InsertNode(Tail(sorted), x)

RECURSIVE sort_nodes(_)
sort_nodes(s) ==
    IF s = <<>> THEN <<>>
    ELSE InsertNode(sort_nodes(SubSeq(s, 1, Len(s) - 1)), s[Len(s)])

\* sort_tree: this level, then every node's children
RECURSIVE sort_tree(_)
sort_tree(nodes) ==
    LET sorted == sort_nodes(nodes)
    IN [i \in 1..Len(sorted) |->
           [sorted[i] EXCEPT !.children = sort_tree(sorted[i].children)]]

\* HashMap::into_values: the values in the map's iteration order, which is any
\* order; ord lists the keys in the order this map's hashing iterates them
into_values(map, ord) ==
    LET keys == SelectSeq(ord, LAMBDA k : k \in DOMAIN map)
    IN [i \in 1..Len(keys) |-> map[keys[i]]]

\* a child map that starts empty at every insertion
child_map_fresh(children) == <<>>

\* children.drain(..).map(|n| (n.name.clone(), n)).collect::<HashMap>()
child_map_of(children) ==
    [n \in {children[i].name : i \in 1..Len(children)} |->
        children[CHOOSE i \in 1..Len(children) :
                    /\ children[i].name = n
                    /\ \A j \in (i + 1)..Len(children) : children[j].name # n]]

\* HashMap::insert
MapPut(m, k, v) == [x \in DOMAIN m \cup {k} |-> IF x = k THEN v ELSE m[x]]

\* the iteration orders left for the maps below a map: ords holds the order of
\* the root map, then the order of the maps rebuilt from folders' children
below(ords) == IF Len(ords) > 1 THEN Tail(ords) ELSE ords

\* insert_path
RECURSIVE insert_path(_, _, _, _, _)
insert_path(nodes, parts, full_path, status, ords) ==
    IF parts = <<>> THEN nodes
    ELSE LET name == parts[1]
             is_file == Len(parts) = 1
             \* entry(name).or_insert_with(..)
             node == IF name \in DOMAIN nodes THEN nodes[name]
                     ELSE [name |-> name,
                           path |-> IF is_file THEN full_path
                                    ELSE join(SubSeq(parts, 1, 1), <<SLASH>>),
                           is_folder |-> ~is_file,
                           children |-> <<>>,
                           status |-> None]
         IN IF is_file
            THEN MapPut(nodes, name, [node EXCEPT !.status = Some(status), !.path = full_path])
            ELSE MapPut(nodes, name,
                        [node EXCEPT !.children =
                            into_values(insert_path(child_map_of(node.children), Tail(parts),
                                                    full_path, status, below(ords)),
                                        Head(below(ords)))])

\* the loop of build_file_tree over the files
RECURSIVE insert_all(_, _, _)
insert_all(root, file_list, ords) ==
    IF file_list = <<>> THEN root
    ELSE insert_all(insert_path(root, split(Head(file_list).path, SLASH),
                                Head(file_list).path, as_str(Head(file_list).status), ords),
                    Tail(file_list), ords)

\* build_file_tree
build_file_tree(file_list, ords) ==
    sort_tree(into_values(insert_all(<<>>, file_list, ords), Head(ords)))

\* flatten_tree
RECURSIVE flatten_tree(_, _)
flatten_tree(nodes, depth) ==
    IF nodes = <<>> THEN <<>>
    ELSE LET node == Head(nodes)
         IN <<[name |-> node.name, path |-> node.path, depth |-> depth,
               is_folder |-> node.is_folder, is_expanded |-> TRUE,
               status |-> IF node.status = None THEN "modified" ELSE node.status[1]]>>
            \o (IF node.is_folder THEN flatten_tree(node.children, depth + 1) ELSE <<>>)
            \o flatten_tree(Tail(nodes), depth)

----------------------------------------------------------------------------
(* The file tree's inputs *)

MaxFiles == 3
MaxBuilds == 2

FileChange(path, status) == [path |-> path, status |-> status, additions |-> 0, deletions |-> 0]

\* the changed files: a (twice, with two statuses), A, B, a/a, a/A, A/a, a/A/a
FileChanges ==
    {FileChange(<<97>>, "Added"),
     FileChange(<<97>>, "Modified"),
     FileChange(<<65>>, "Deleted"),
     FileChange(<<66>>, "Renamed"),
     FileChange(<<97, SLASH, 97>>, "Added"),
     FileChange(<<97, SLASH, 65>>, "Modified"),
     FileChange(<<65, SLASH, 97>>, "Modified"),
     FileChange(<<97, SLASH, 65, SLASH, 97>>, "Deleted")}

\* "src/main.x", "src/lib.x" and "README.md", all modified
ScenarioFiles ==
    <<FileChange(<<115, 114, 99, SLASH, 109, 97, 105, 110, DOT, 120>>, "Modified"),
      FileChange(<<115, 114, 99, SLASH, 108, 105, 98, DOT, 120>>, "Modified"),
      FileChange(<<82, 69, 65, 68, 77, 69, DOT, 109, 100>>, "Modified")>>

\* the path segments of a file list: the keys its maps may hold
SegmentsOf(file_list) ==
    UNION {Range(split(file_list[i].path, SLASH)) : i \in 1..Len(file_list)}

\* the orders in which a HashMap may iterate the given keys
IterationOrders(names) ==
    {o \in [1..Cardinality(names) -> names] :
        \A i, j \in DOMAIN o : i # j => o[i] # o[j]}

Permutations_of(n) == {f \in [1..n -> 1..n] : \A i, j \in 1..n : i # j => f[i] # f[j]}

LinesIdle ==
    /\ diff_data = [files |-> <<>>, file_hunks |-> <<>>]
    /\ all_pr_comments = <<>>
    /\ pr_comments = None
    /\ syntect_err = {}
    /\ selected_file = <<>>
    /\ lines = <<>>

InitTree ==
    /\ input_files \in SeqsUpTo(FileChanges, MaxFiles) \cup {ScenarioFiles}
    /\ tree = <<>>
    /\ files = <<>>
    /\ prev_files = None
    /\ runs = 0
    /\ LinesIdle
    /\ AppIdle

\* the file list of load_diff: the diff's files, in the order the diff engine gives
\* them, built into the tree and flattened for the window
load_files(file_list, ords) ==
    /\ runs < MaxBuilds
    /\ input_files' = file_list
    /\ tree' = build_file_tree(file_list, ords)
    /\ files' = flatten_tree(tree', 0)
    /\ prev_files' = IF runs = 0 THEN None ELSE Some(files)
    /\ runs' = runs + 1
    /\ UNCHANGED <<diff_data, all_pr_comments, pr_comments, syntect_err, selected_file, lines>>
    /\ UNCHANGED app_vars

NextTree ==
    \E perm \in Permutations_of(Len(input_files)),
       ords \in IterationOrders(SegmentsOf(input_files)) \X IterationOrders(SegmentsOf(input_files)) :
        load_files([i \in 1..Len(input_files) |-> input_files[perm[i]]], ords)

SpecTree == InitTree /\ [][NextTree]_vars

----------------------------------------------------------------------------
(* The file tree's claims *)

Built == runs > 0

Lowered(s) == [i \in 1..Len(s) |-> IF s[i] >= 65 /\ s[i] <= 90 THEN s[i] + 32 ELSE s[i]]

\* s is at most t in the lexicographic order of the character codes
LexLeq(s, t) ==
    \/ Len(s) <= Len(t) /\ s = SubSeq(t, 1, Len(s))
    \/ \E i \in 1..Len(s) :
          /\ i <= Len(t)
          /\ SubSeq(s, 1, i - 1) = SubSeq(t, 1, i - 1)
          /\ s[i] < t[i]

\* x may stand before y among siblings: no file before a folder, and equal kinds
\* by ascending lower-cased name
InOrder(x, y) ==
    /\ x.is_folder \/ ~y.is_folder
    /\ x.is_folder = y.is_folder => LexLeq(Lowered(x.name), Lowered(y.name))

RECURSIVE LevelsOrdered(_)
LevelsOrdered(nodes) ==
    /\ \A i, j \in 1..Len(nodes) : i < j => InOrder(nodes[i], nodes[j])
    /\ \A i \in 1..Len(nodes) : LevelsOrdered(nodes[i].children)

\* entries i < j of the flattened list have the same parent
FlatSiblings(i, j) ==
    /\ files[i].depth = files[j].depth
    /\ \A m \in i..j : files[m].depth >= files[i].depth

\* C9: at every level of build_file_tree's result, and among the flattened
\* entries of one parent, all folders precede all files and nodes of the same
\* kind are in ascending order of their lower-cased names.
C9_LevelsSorted ==
    Built =>
        /\ LevelsOrdered(tree)
        /\ \A i, j \in 1..Len(files) :
              (i < j /\ FlatSiblings(i, j)) => InOrder(files[i], files[j])

\* a level with the folder "A" before two files, "a" before "B", which the
\* character codes alone would order the other way
C9_Witness ==
    /\ Built
    /\ Len(tree) = 3
    /\ tree[1].is_folder /\ tree[1].name = <<65>> /\ tree[1].children # <<>>
    /\ ~tree[2].is_folder /\ tree[2].name = <<97>>
    /\ ~tree[3].is_folder /\ tree[3].name = <<66>>
    /\ Len(files) = 4

\* C10: flatten_tree(build_file_tree(files)) is independent of the order of the
\* input: building again from any permutation of the same files gives the
\* identical flattened sequence.
C10_PermutationIndependent == prev_files # None => files = prev_files[1]

InputPaths == {input_files[i].path : i \in 1..Len(input_files)}

\* the status strings of the input files of path p
StatusesOf(p) ==
    {CASE input_files[i].status = "Added" -> "added"
       [] input_files[i].status = "Modified" -> "modified"
       [] input_files[i].status = "Deleted" -> "deleted"
       [] input_files[i].status = "Renamed" -> "renamed" :
        i \in {k \in 1..Len(input_files) : input_files[k].path = p}}

\* the non-folder entries of the flattened list whose path is p
Leaves(p) == {j \in 1..Len(files) : ~files[j].is_folder /\ files[j].path = p}

\* C11: the flattened tree holds exactly one non-folder entry per input file
\* path, with that path and the input file's status string; no input file is
\* missing, also when one path is a directory prefix of another, and there is no
\* extra leaf.
C11_RoundTrip ==
    Built =>
        /\ \A p \in InputPaths :
              /\ Cardinality(Leaves(p)) = 1
              /\ \A j \in Leaves(p) : files[j].status \in StatusesOf(p)
        /\ \A j \in 1..Len(files) : ~files[j].is_folder => files[j].path \in InputPaths

\* every node of the forest: non-folders have a status and no child, folders no status
RECURSIVE StatusOnLeaves(_)
StatusOnLeaves(nodes) ==
    \A i \in 1..Len(nodes) :
        /\ ~nodes[i].is_folder => (nodes[i].status # <<>> /\ nodes[i].children = <<>>)
        /\ nodes[i].is_folder => nodes[i].status = <<>>
        /\ StatusOnLeaves(nodes[i].children)

\* C12: in every tree build_file_tree returns, a node carries a status if and
\* only if it is a non-folder node; non-folder nodes have no children; whatever
\* the order in which the paths were inserted.
C12_StatusIffLeaf == Built => StatusOnLeaves(tree)

\* the names on the chain joined by slashes
RECURSIVE SlashJoined(_)
SlashJoined(chain) ==
    IF Len(chain) = 1 THEN chain[1]
    ELSE SlashJoined(SubSeq(chain, 1, Len(chain) - 1)) \o <<47>> \o chain[Len(chain)]

\* every node's path is the slash-joined chain of names from the top down to it
RECURSIVE PathsChained(_, _)
PathsChained(nodes, chain) ==
    \A i \in 1..Len(nodes) :
        /\ nodes[i].path = SlashJoined(Append(chain, nodes[i].name))
        /\ PathsChained(nodes[i].children, Append(chain, nodes[i].name))

\* the paths of all the nodes of the forest, one per node
RECURSIVE NodePaths(_)
NodePaths(nodes) ==
    IF nodes = <<>> THEN <<>>
    ELSE <<Head(nodes).path>> \o NodePaths(Head(nodes).children) \o NodePaths(Tail(nodes))

\* C13: in every tree build_file_tree returns, each node's path is the
\* slash-joined sequence of the names from its top-level ancestor down to itself,
\* and two distinct nodes never have the same path.
C13_PathIsChain ==
    Built =>
        /\ PathsChained(tree, <<>>)
        /\ \A i, j \in 1..Len(NodePaths(tree)) :
              i # j => NodePaths(tree)[i] # NodePaths(tree)[j]

\* the segments of the input paths, and the segments that follow the chain in the
\* input paths that go below it
InputParts == {split(input_files[i].path, 47) : i \in 1..Len(input_files)}
NextSegments(chain) ==
    {parts[Len(chain) + 1] :
        parts \in {q \in InputParts : Len(q) > Len(chain) /\ SubSeq(q, 1, Len(chain)) = chain}}

\* siblings have distinct names, and a folder has one child per distinct next
\* segment of the files below it
RECURSIVE MergedBelow(_, _)
MergedBelow(nodes, chain) ==
    /\ \A i, j \in 1..Len(nodes) : i # j => nodes[i].name # nodes[j].name
    /\ \A i \in 1..Len(nodes) :
          /\ nodes[i].is_folder =>
                Len(nodes[i].children) = Cardinality(NextSegments(Append(chain, nodes[i].name)))
          /\ MergedBelow(nodes[i].children, Append(chain, nodes[i].name))

IsTreeScenario ==
    /\ Len(input_files) = 3
    /\ Range(input_files) = Range(ScenarioFiles)

\* C14: build_file_tree merges the files that share a directory prefix under one
\* folder node: no two siblings have the same name and a folder has as many
\* children as there are distinct next path segments among the files below it;
\* src/main.x, src/lib.x and README.md give exactly two top-level nodes, the
\* folder src with exactly two children first, then README.md.
C14_PrefixesMerged ==
    Built =>
        /\ MergedBelow(tree, <<>>)
        /\ IsTreeScenario =>
              /\ Len(tree) = 2
              /\ tree[1].is_folder /\ tree[1].name = <<115, 114, 99>>
              /\ Len(tree[1].children) = 2
              /\ ~tree[2].is_folder /\ tree[2].name = <<82, 69, 65, 68, 77, 69, 46, 109, 100>>

C14_Witness ==
    /\ Built
    /\ IsTreeScenario
    /\ Len(files) = 4
    /\ files[1].is_folder /\ files[2].depth = 1 /\ files[3].depth = 1 /\ files[4].depth = 0

----------------------------------------------------------------------------
(* git/repository.rs: names and snapshots; github.rs: what gh answers *)

\* Result<T>
Ok(v) == [ok |-> TRUE, value |-> v]
Err(e) == [ok |-> FALSE, error |-> e]

\* Repository::find_default_branch: a local main or master, then origin's
find_default_branch(r) ==
    IF "main" \in DOMAIN r.local THEN Ok("main")
    ELSE IF "master" \in DOMAIN r.local THEN Ok("master")
    ELSE IF r.origin /\ "main" \in DOMAIN r.remote THEN Ok("main")
    ELSE IF r.origin /\ "master" \in DOMAIN r.remote THEN Ok("master")
    ELSE Err("Could not find default branch (main or master)")

\* git2's revparse_single: the names it resolves beyond the branches just tried
revparse_single(r, ref_name) ==
    IF ref_name \in DOMAIN r.objects THEN Ok(r.objects[ref_name])
    ELSE Err("Could not resolve ref")

\* Repository::resolve_ref: a direct reference with a target, a local branch, a
\* branch of origin, then revparse
resolve_ref(r, ref_name) ==
    IF ref_name \in DOMAIN r.direct /\ r.direct[ref_name] # None THEN Ok(r.direct[ref_name][1])
    ELSE IF ref_name \in DOMAIN r.local THEN Ok(r.local[ref_name])
    ELSE IF ref_name \in DOMAIN r.remote THEN Ok(r.remote[ref_name])
    ELSE revparse_single(r, ref_name)

head_commit_of_main(r) == IF "main" \in DOMAIN r.local THEN Ok(r.local["main"]) ELSE Err("Failed to get HEAD")

\* Repository::head_commit
head_commit(r) == IF r.head # None THEN Ok(r.head[1]) ELSE Err("Failed to get HEAD")

\* the snapshots: the number of lines of each file in the tree of each commit
\* ("b" and "m.rs"; 0 lines: the file is not in the tree); e is an empty commit on b
TreeOf(oid) ==
    CASE oid = "m" -> <<0, 1>>
      [] oid = "a" -> <<1, 2>>
      [] oid = "b" -> <<1, 3>>
      [] oid = "e" -> <<1, 3>>

\* the paths of the snapshots, in the order of the diff's deltas
SnapshotPaths == <<BarePath, MainPath>>

\* libgit2's hunks for a file rewritten from n_old lines to n_new lines
RewriteHunks(n_old, n_new) ==
    Git2Hunks(<<[i \in 1..(n_old + n_new) |-> IF i <= n_old THEN 45 ELSE 43]>>,
              IF n_old = 0 THEN 0 ELSE 1, IF n_new = 0 THEN 0 ELSE 1)

\* the deltas of diff_tree_to_tree: the paths whose content differs
RECURSIVE DeltasFrom(_, _, _)
DeltasFrom(base_tree, head_tree, i) ==
    IF i > Len(SnapshotPaths) THEN <<>>
    ELSE (IF base_tree[i] = head_tree[i] THEN <<>>
          ELSE <<[path |-> SnapshotPaths[i],
                  status |-> IF base_tree[i] = 0 THEN "Added"
                             ELSE IF head_tree[i] = 0 THEN "Deleted" ELSE "Modified",
                  hunks |-> LET g == RewriteHunks(base_tree[i], head_tree[i])
                            IN [k \in 1..Len(g) |-> diff_hunk_of(g[k])]]>>)
         \o DeltasFrom(base_tree, head_tree, i + 1)

\* Repository::diff_commits: fails unless both ids are commits
diff_commits(r, base_oid, head_oid) ==
    IF base_oid \notin r.commits THEN Err("Failed to find base commit")
    ELSE IF head_oid \notin r.commits THEN Err("Failed to find head commit")
    ELSE LET deltas == DeltasFrom(TreeOf(base_oid), TreeOf(head_oid), 1)
         IN Ok([files |-> [i \in 1..Len(deltas) |->
                              file_change_of(deltas[i].path, deltas[i].status, deltas[i].hunks)],
                file_hunks |-> [p \in {d.path : d \in {e \in Range(deltas) : e.hunks # <<>>}} |->
                                   (CHOOSE d \in Range(deltas) : d.path = p).hunks]])

----------------------------------------------------------------------------
(* app.rs: App::new, load_diff and the commit selection callback *)

\* str::lines().next().unwrap_or(""): the first line, without its line ending
RECURSIVE first_line(_)
first_line(s) ==
    IF s = <<>> \/ Head(s) = LF THEN <<>>
    ELSE IF Head(s) = 13 /\ Len(s) > 1 /\ s[2] = LF THEN <<>>
    ELSE <<Head(s)>> \o first_line(Tail(s))

\* PrCommitModel::from(&PrCommit), then into the window's PrCommitEntry
PrCommitModel_from(commit) ==
    [sha |-> commit.sha, short_sha |-> commit.short_sha, summary |-> first_line(commit.message),
     author |-> commit.author, is_selected |-> FALSE]

\* the diff title of App::new
title_of(t, r) ==
    CASE t.kind = "DefaultBranch" ->
            LET d == find_default_branch(r)
            IN IF d.ok THEN Ok([text |-> "HEAD vs", ref |-> d.value, number |-> 0, title |-> ""])
               ELSE d
      [] t.kind = "Ref" -> Ok([text |-> "HEAD vs", ref |-> t.name, number |-> 0, title |-> ""])
      [] t.kind = "PullRequest" ->
            Ok([text |-> "PR #", ref |-> "", number |-> t.number, title |-> ""])

\* the two ids of a pair of names, once both are resolved; the first failure otherwise
resolve_both(base, head) ==
    IF ~base.ok THEN base
    ELSE IF ~head.ok THEN head
    ELSE Ok([base |-> base.value, head |-> head.value])

\* load_diff: the target resolved to (base_oid, head_oid)
resolve_target(t, r, g) ==
    CASE t.kind = "DefaultBranch" ->
            LET d == find_default_branch(r)
            IN IF ~d.ok THEN d ELSE resolve_both(resolve_ref(r, d.value), head_commit(r))
      [] t.kind = "Ref" -> resolve_both(resolve_ref(r, t.name), head_commit(r))
      [] t.kind = "PullRequest" ->
            IF ~g.info.ok THEN g.info
            ELSE resolve_both(resolve_ref(r, g.info.value.base_ref),
                              resolve_ref(r, g.info.value.head_ref))

\* flat_entries.iter().find(|e| !e.is_folder)
first_file_of(flat_entries) ==
    LET found == SelectSeq(flat_entries, LAMBDA e : ~e.is_folder)
    IN IF found = <<>> THEN None ELSE Some(Head(found))

\* the window after a diff is displayed: the flattened tree, and the first file
\* selected with its lines when there is one
display(data, comments) ==
    /\ \E ords \in IterationOrders(SegmentsOf(data.files)) \X IterationOrders(SegmentsOf(data.files)) :
          tree' = build_file_tree(data.files, ords)
    /\ files' = flatten_tree(tree', 0)
    /\ LET first_file == first_file_of(files')
       IN IF first_file # None
          THEN /\ selected_file' = first_file[1].path
               /\ lines' = get_lines_for_file(data, first_file[1].path, comments)
          ELSE UNCHANGED <<selected_file, lines>>

pr_fetched_all_or_nothing(t, g) ==
    LET all == g.commits.ok /\ g.comments.ok
    IN [diff_title |-> [text |-> "PR #", ref |-> "", number |-> t.number,
                        title |-> g.info.value.title],
        pr_base_ref |-> Some(g.info.value.base_ref),
        pr_head_ref |-> Some(g.info.value.head_ref),
        commits |-> IF all
                    THEN [i \in 1..Len(g.commits.value) |-> PrCommitModel_from(g.commits.value[i])]
                    ELSE commits,
        pr_commits |-> IF all THEN g.commits.value ELSE pr_commits,
        pr_comments |-> IF all THEN Some(group_comments_by_file(g.comments.value))
                        ELSE pr_comments,
        all_pr_comments |-> IF all THEN g.comments.value ELSE all_pr_comments,
        warnings |-> warnings \cup (IF g.commits.ok THEN {} ELSE {"Could not fetch PR commits"})
                              \cup (IF g.comments.ok THEN {} ELSE {"Could not fetch PR comments"})]

\* load_diff's pull request arm after both refs resolved: the title, the stored
\* refs, the commits and the comments as fetched, a warning for each fetch that failed
pr_fetched(t, g) ==
    [diff_title |-> [text |-> "PR #", ref |-> "", number |-> t.number, title |-> g.info.value.title],
     pr_base_ref |-> Some(g.info.value.base_ref),
     pr_head_ref |-> Some(g.info.value.head_ref),
     commits |-> IF g.commits.ok
                 THEN [i \in 1..Len(g.commits.value) |-> PrCommitModel_from(g.commits.value[i])]
                 ELSE commits,
     pr_commits |-> IF g.commits.ok THEN g.commits.value ELSE pr_commits,
     pr_comments |-> IF g.comments.ok THEN Some(group_comments_by_file(g.comments.value))
                     ELSE pr_comments,
     all_pr_comments |-> IF g.comments.ok THEN g.comments.value ELSE all_pr_comments,
     warnings |-> warnings \cup (IF g.commits.ok THEN {} ELSE {"Could not fetch PR commits"})
                           \cup (IF g.comments.ok THEN {} ELSE {"Could not fetch PR comments"})]

\* what load_diff leaves of the fields above when the target is no pull request
not_fetched(title) ==
    [diff_title |-> title, pr_base_ref |-> pr_base_ref, pr_head_ref |-> pr_head_ref,
     commits |-> commits, pr_commits |-> pr_commits, pr_comments |-> pr_comments,
     all_pr_comments |-> all_pr_comments, warnings |-> warnings]

\* App::new returned Err: main reports the error and the window never runs
load_failed(e) ==
    /\ phase' = "failed"
    /\ error' = Some(e)

\* App::new: the title, then load_diff. Every ? that fails ends the
\* construction with what was assigned until then.
App_new ==
    /\ phase = "new"
    /\ UNCHANGED <<target, repo, gh, args, syntect_err, input_files, prev_files, runs>>
    /\ LET title == title_of(target, repo)
           resolved == resolve_target(target, repo, gh)
       IN IF ~title.ok \/ ~resolved.ok
          THEN /\ load_failed(IF ~title.ok THEN title.error ELSE resolved.error)
               /\ diff_title' = IF title.ok THEN title.value ELSE diff_title
               /\ last_event' = [kind |-> "load", idx |-> 0, call |-> None]
               /\ UNCHANGED <<diff_data, all_pr_comments, pr_comments, selected_file, lines,
                              tree, files, pr_commits, pr_base_ref, pr_head_ref, commits,
                              warnings>>
          ELSE LET set == IF target.kind = "PullRequest" THEN pr_fetched(target, gh)
                          ELSE not_fetched(title.value)
                   data == diff_commits(repo, resolved.value.base, resolved.value.head)
               IN /\ diff_title' = set.diff_title
                  /\ pr_base_ref' = set.pr_base_ref
                  /\ pr_head_ref' = set.pr_head_ref
                  /\ commits' = set.commits
                  /\ pr_commits' = set.pr_commits
                  /\ pr_comments' = set.pr_comments
                  /\ all_pr_comments' = set.all_pr_comments
                  /\ warnings' = set.warnings
                  /\ last_event' = [kind |-> "load", idx |-> 0,
                                    call |-> Some([base |-> resolved.value.base,
                                                   head |-> resolved.value.head,
                                                   comments |-> set.pr_comments])]
                  /\ IF data.ok
                     THEN /\ display(data.value, set.pr_comments)
                          /\ diff_data' = data.value
                          /\ phase' = "running"
                          /\ error' = error
                     ELSE /\ load_failed(data.error)
                          /\ UNCHANGED <<diff_data, selected_file, lines, tree, files>>

\* the two names the commit selection callback compares
all_changes_names_swapped(base, head) == [base |-> head, head |-> base]
all_changes_names(base, head) == [base |-> base, head |-> head]
parent_names_swapped(commit) == [base |-> commit.sha, head |-> commit.parent_sha[1]]
parent_names(commit) == [base |-> commit.parent_sha[1], head |-> commit.sha]
rootless_names_of_itself(commit, base) == [base |-> commit.sha, head |-> commit.sha]
rootless_names(commit, base) == [base |-> base, head |-> commit.sha]

commit_comments_by_commit_id(comments, commit) ==
    SelectSeq(comments, LAMBDA c : c.commit_id = commit.sha)

\* the comments left on one commit
commit_comments(comments, commit) ==
    SelectSeq(comments, LAMBDA c : c.original_commit_id = commit.sha)

\* the commit selection callback's choice for idx: the two names to compare and
\* the comments to show, or nothing
selection_of(idx) ==
    IF idx < 0
    THEN IF pr_base_ref # None /\ pr_head_ref # None
         THEN Some([names |-> all_changes_names(pr_base_ref[1], pr_head_ref[1]),
                    comments |-> all_pr_comments])
         ELSE None
    ELSE IF idx < Len(pr_commits)
    THEN LET commit == pr_commits[idx + 1]
         IN IF commit.parent_sha # None
            THEN Some([names |-> parent_names(commit),
                       comments |-> commit_comments(all_pr_comments, commit)])
            ELSE IF pr_base_ref # None
            THEN Some([names |-> rootless_names(commit, pr_base_ref[1]),
                       comments |-> commit_comments(all_pr_comments, commit)])
            ELSE None
    ELSE None

\* diff_result of the callback: nothing unless both names resolve (.ok() drops
\* the error), else the ids, diff_commits' result and the grouped comments
diff_result(idx) ==
    LET sel == selection_of(idx)
    IN IF sel = None THEN None
       ELSE LET base_oid == resolve_ref(repo, sel[1].names.base)
                head_oid == resolve_ref(repo, sel[1].names.head)
            IN IF base_oid.ok /\ head_oid.ok
               THEN Some([base |-> base_oid.value, head |-> head_oid.value,
                          result |-> diff_commits(repo, base_oid.value, head_oid.value),
                          comments |-> Some(group_comments_by_file(sel[1].comments))])
               ELSE None

on_commit_selected_clearing(idx) ==
    LET selected == diff_result(idx)
    IN /\ last_event' = [kind |-> "commit", idx |-> idx,
                         call |-> IF selected = None THEN None
                                  ELSE Some([base |-> selected[1].base, head |-> selected[1].head,
                                             comments |-> selected[1].comments])]
       /\ IF selected # None /\ selected[1].result.ok
          THEN display(selected[1].result.value, selected[1].comments)
          ELSE /\ files' = <<>>
               /\ tree' = <<>>
               /\ lines' = <<>>
               /\ UNCHANGED selected_file
       /\ UNCHANGED <<diff_data, all_pr_comments, pr_comments, syntect_err, input_files,
                      prev_files, runs, target, repo, gh, args, pr_commits, pr_base_ref,
                      pr_head_ref, commits, diff_title, phase, error, warnings>>

\* the commit selection callback: a diff that was computed is displayed, anything
\* else leaves the window as it is
on_commit_selected(idx) ==
    LET selected == diff_result(idx)
    IN /\ last_event' = [kind |-> "commit", idx |-> idx,
                         call |-> IF selected = None THEN None
                                  ELSE Some([base |-> selected[1].base, head |-> selected[1].head,
                                             comments |-> selected[1].comments])]
       /\ IF selected # None /\ selected[1].result.ok
          THEN display(selected[1].result.value, selected[1].comments)
          ELSE UNCHANGED <<selected_file, lines, tree, files>>
       /\ UNCHANGED <<diff_data, all_pr_comments, pr_comments, syntect_err, input_files,
                      prev_files, runs, target, repo, gh, args, pr_commits, pr_base_ref, pr_head_ref,
                      commits, diff_title, phase, error, warnings>>

----------------------------------------------------------------------------
(* The app's inputs: the target, the repository and GitHub's answers *)

MaxIndex == 2

NoTarget == [kind |-> "DefaultBranch", name |-> "", number |-> 0]
RefTarget(name) == [kind |-> "Ref", name |-> name, number |-> 0]
PullRequestTarget(number) == [kind |-> "PullRequest", name |-> "", number |-> number]

Targets ==
    {NoTarget, RefTarget("main"), RefTarget("feature"), RefTarget("a"), RefTarget("HEAD"),
     RefTarget("t"), RefTarget("nope"), PullRequestTarget(7)}

\* a clone with main and feature, local and on origin, HEAD on feature; history
\* m - a - b, feature at b, and a tag t that names no commit
PlainRepo ==
    [direct |-> ("HEAD" :> None),
     local |-> ("main" :> "m" @@ "feature" :> "b"),
     remote |-> ("main" :> "m" @@ "feature" :> "b"),
     objects |-> ("m" :> "m" @@ "a" :> "a" @@ "b" :> "b" @@ "t" :> "t" @@ "HEAD" :> "b"),
     origin |-> TRUE,
     head |-> Some("b"),
     commits |-> {"m", "a", "b"}]

Repos ==
    {PlainRepo,
     \* main only on origin
     [PlainRepo EXCEPT !.local = ("feature" :> "b")],
     \* master instead of main
     [PlainRepo EXCEPT !.local = ("master" :> "m" @@ "feature" :> "b"),
                       !.remote = ("master" :> "m" @@ "feature" :> "b")],
     \* neither main nor master
     [PlainRepo EXCEPT !.local = ("feature" :> "b"), !.remote = ("feature" :> "b")],
     \* no origin, and no default branch
     [PlainRepo EXCEPT !.local = ("feature" :> "b"), !.remote = <<>>, !.origin = FALSE],
     \* commit a missing from the object database
     [PlainRepo EXCEPT !.objects = ("m" :> "m" @@ "b" :> "b" @@ "t" :> "t" @@ "HEAD" :> "b"),
                       !.commits = {"m", "b"}],
     \* the local feature branch behind origin's
     [PlainRepo EXCEPT !.local = ("main" :> "m" @@ "feature" :> "a"),
                       !.objects = ("m" :> "m" @@ "a" :> "a" @@ "b" :> "b" @@ "t" :> "t"
                                    @@ "HEAD" :> "a"),
                       !.head = Some("a")],
     \* the feature branch not fetched
     [PlainRepo EXCEPT !.local = ("main" :> "m"), !.remote = ("main" :> "m")],
     \* HEAD detached at a
     [PlainRepo EXCEPT !.direct = ("HEAD" :> Some("a")), !.head = Some("a"),
                       !.objects = ("m" :> "m" @@ "a" :> "a" @@ "b" :> "b" @@ "t" :> "t"
                                    @@ "HEAD" :> "a")],
     \* HEAD unborn
     [PlainRepo EXCEPT !.head = None,
                       !.objects = ("m" :> "m" @@ "a" :> "a" @@ "b" :> "b" @@ "t" :> "t")],
     \* an empty commit e on top of b, feature at e
     [PlainRepo EXCEPT !.local = ("main" :> "m" @@ "feature" :> "e"),
                       !.remote = ("main" :> "m" @@ "feature" :> "e"),
                       !.objects = ("m" :> "m" @@ "a" :> "a" @@ "b" :> "b" @@ "e" :> "e"
                                    @@ "t" :> "t" @@ "HEAD" :> "e"),
                       !.head = Some("e"),
                       !.commits = {"m", "a", "b", "e"}]}

\* github::PrCommit
PrCommit(sha, parent_sha) ==
    [sha |-> sha, short_sha |-> sha, parent_sha |-> parent_sha,
     message |-> <<102, 105, 120, LF, LF, 120>>, author |-> <<97, 110, 110>>]

CommitLists ==
    {<<>>,
     <<PrCommit("a", None), PrCommit("b", Some("a"))>>,
     <<PrCommit("a", Some("m")), PrCommit("b", Some("a"))>>,
     <<PrCommit("t", None), PrCommit("b", Some("t"))>>,
     <<PrCommit("b", Some("a")), PrCommit("e", Some("b"))>>}

GhFailed == Err("gh failed")

\* the review comments gh may return: the lists of the interleaver, and two with
\* a comment whose path differs from "m.rs" by case only
CasePath == <<77, 46, 114, 115>>
GhCommentLists ==
    CommentLists
    \cup {<<Comment(6, None, CasePath, Some(1), "Right", Timestamp, "a"),
            Comment(1, None, MainPath, Some(2), "Right", Timestamp, "a")>>,
          <<Comment(2, None, MainPath, Some(1), "Left", Timestamp, "b"),
            Comment(6, None, CasePath, Some(1), "Right", Timestamp, "a")>>}

\* gh's answers for a pull request of feature into main; without its refs there
\* is nothing else to fetch
GhAnswers ==
    {[info |-> GhFailed, commits |-> GhFailed, comments |-> GhFailed]}
    \cup [info : {Ok([base_ref |-> "main", head_ref |-> "feature", title |-> "Fix"])},
          commits : {GhFailed} \cup {Ok(cl) : cl \in CommitLists},
          comments : {GhFailed} \cup {Ok(cs) : cs \in GhCommentLists}]

\* before App::new: nothing loaded, fetched or shown
InitApp ==
    /\ target \in Targets
    /\ repo \in Repos
    /\ gh \in IF target.kind = "PullRequest" THEN GhAnswers
              ELSE {[info |-> GhFailed, commits |-> GhFailed, comments |-> GhFailed]}
    /\ pr_commits = <<>>
    /\ pr_base_ref = None
    /\ pr_head_ref = None
    /\ commits = <<>>
    /\ diff_title = [text |-> "", ref |-> "", number |-> 0, title |-> ""]
    /\ args = None
    /\ phase = "new"
    /\ error = None
    /\ warnings = {}
    /\ last_event = [kind |-> "new", idx |-> 0, call |-> None]
    /\ LinesIdle
    /\ TreeIdle

\* the window runs once App::new returned Ok; its callbacks then fire in any order
NextApp ==
    \/ App_new
    \/ phase = "running" /\ \E idx \in -1..MaxIndex : on_commit_selected(idx)
    \/ phase = "running" /\ \E i \in 1..Len(files) : on_file_selected(files[i].path)
    \/ phase = "running" /\ on_settings_changed

SpecApp == InitApp /\ [][NextApp]_vars

----------------------------------------------------------------------------
(* The target resolver: which two commits are compared, with which comments *)

\* the commit list of the scenario: a without parent, then b with parent a
ScenarioCommits == <<PrCommit("a", None), PrCommit("b", Some("a"))>>

\* the last event was the selection of a commit of the list
CommitSelected ==
    /\ last_event.kind = "commit"
    /\ last_event.idx \in 0..(Len(pr_commits) - 1)

SelectedCommit == pr_commits[last_event.idx + 1]

\* the last comparison was that of the ids of the two names
Compared(base, head) ==
    /\ last_event.call # None
    /\ last_event.call[1].base = resolve_ref(repo, base).value
    /\ last_event.call[1].head = resolve_ref(repo, head).value

BothResolve(base, head) == resolve_ref(repo, base).ok /\ resolve_ref(repo, head).ok

\* C15: selecting a commit that has a parent compares the resolved id of its
\* parent (base) with the resolved id of the commit itself (head), whenever a
\* comparison is made, and one is made when both resolve; in the scenario
\* [a without parent, b with parent a], index 1 compares a with b.
C15_ParentAgainstCommit ==
    (CommitSelected /\ SelectedCommit.parent_sha # None) =>
        /\ last_event.call # None =>
              Compared(SelectedCommit.parent_sha[1], SelectedCommit.sha)
        /\ BothResolve(SelectedCommit.parent_sha[1], SelectedCommit.sha) =>
              last_event.call # None
        /\ (pr_commits = ScenarioCommits /\ last_event.idx = 1 /\ last_event.call # None) =>
              /\ last_event.call[1].base = "a"
              /\ last_event.call[1].head = "b"

C15_Witness ==
    /\ CommitSelected
    /\ pr_commits = ScenarioCommits
    /\ last_event.idx = 1
    /\ last_event.call # None
    /\ last_event.call[1].base = "a"
    /\ last_event.call[1].head = "b"
    /\ lines # <<>>

\* C16: selecting a commit that has no parent compares the recorded base ref of
\* the pull request (base, which is always recorded) with the commit itself
\* (head), whenever a comparison is made, and one is made when both resolve; in
\* the scenario, index 0 compares the base ref with a.
C16_BaseRefAgainstRootless ==
    (CommitSelected /\ SelectedCommit.parent_sha = None) =>
        /\ pr_base_ref # None
        /\ last_event.call # None => Compared(pr_base_ref[1], SelectedCommit.sha)
        /\ BothResolve(pr_base_ref[1], SelectedCommit.sha) => last_event.call # None
        /\ (pr_commits = ScenarioCommits /\ last_event.idx = 0 /\ last_event.call # None) =>
              /\ pr_base_ref = Some(gh.info.value.base_ref)
              /\ last_event.call[1].base = resolve_ref(repo, gh.info.value.base_ref).value
              /\ last_event.call[1].head = "a"

C16_Witness ==
    /\ CommitSelected
    /\ pr_commits = ScenarioCommits
    /\ last_event.idx = 0
    /\ last_event.call # None
    /\ last_event.call[1].base = "m"
    /\ last_event.call[1].head = "a"
    /\ lines # <<>>

\* the last event showed all changes of a pull request: the initial load, or a
\* commit selection with a negative index
AllChangesShown ==
    /\ target.kind = "PullRequest"
    /\ \/ last_event.kind = "load"
       \/ last_event.kind = "commit" /\ last_event.idx < 0

\* the review comments gh returned for the pull request
FetchedComments == IF gh.comments.ok THEN gh.comments.value ELSE <<>>

\* C17: for all changes of a pull request (the initial load, or a commit
\* selection with a negative index) the comparison is that of the recorded base
\* ref with the recorded head ref, both resolved, and the comments used are all
\* review comments of the request grouped by file, none filtered out (no
\* comment map at the load when the comments could not be fetched).
C17_AllChanges ==
    AllChangesShown =>
        /\ last_event.call # None =>
              /\ pr_base_ref = Some(gh.info.value.base_ref)
              /\ pr_head_ref = Some(gh.info.value.head_ref)
              /\ Compared(pr_base_ref[1], pr_head_ref[1])
              /\ last_event.call[1].comments =
                    IF last_event.kind = "load" /\ ~gh.comments.ok THEN None
                    ELSE Some(group_comments_by_file(FetchedComments))
              /\ \A i \in 1..Len(FetchedComments) :
                    /\ FetchedComments[i].path \in DOMAIN last_event.call[1].comments[1]
                    /\ FetchedComments[i]
                          \in Range(last_event.call[1].comments[1][FetchedComments[i].path])
        /\ (/\ last_event.kind = "commit"
            /\ BothResolve(gh.info.value.base_ref, gh.info.value.head_ref)) =>
              last_event.call # None

C17_Witness ==
    /\ AllChangesShown
    /\ last_event.kind = "commit"
    /\ last_event.call # None
    /\ last_event.call[1].base = "m"
    /\ last_event.call[1].head = "b"
    /\ Len(FetchedComments) = 2
    /\ FetchedComments[1].original_commit_id # FetchedComments[2].original_commit_id
    /\ Cardinality({j \in 1..Len(lines) : lines[j].line_type = "comment"}) = 2

\* C18: for the target DefaultBranch the pair compared is (tip of the default
\* branch, tip of the current checkout) and for Ref(name) it is (the name
\* resolved, tip of the current checkout); no review comment is loaded for
\* either, no commit selection compares anything, and no comment line is ever
\* displayed.
C18_LocalTargets ==
    target.kind \in {"DefaultBranch", "Ref"} =>
        /\ pr_comments = None
        /\ all_pr_comments = <<>>
        /\ \A j \in 1..Len(lines) : lines[j].line_type # "comment"
        /\ last_event.kind = "commit" => last_event.call = None
        /\ (last_event.kind = "load" /\ last_event.call # None) =>
              /\ repo.head # None
              /\ last_event.call[1].head = repo.head[1]
              /\ last_event.call[1].comments = None
              /\ target.kind = "Ref" =>
                    last_event.call[1].base = resolve_ref(repo, target.name).value
              /\ target.kind = "DefaultBranch" =>
                    /\ find_default_branch(repo).ok
                    /\ last_event.call[1].base
                          = resolve_ref(repo, find_default_branch(repo).value).value
                    /\ repo = PlainRepo =>
                          last_event.call[1].base = "m" /\ last_event.call[1].head = "b"
        /\ (phase # "new" /\ last_event.kind = "load" /\ last_event.call = None) =>
              \/ repo.head = None
              \/ target.kind = "Ref" /\ ~resolve_ref(repo, target.name).ok
              \/ target.kind = "DefaultBranch" /\ ~find_default_branch(repo).ok

C18_Witness ==
    /\ target = RefTarget("a")
    /\ phase = "running"
    /\ last_event.kind = "load"
    /\ last_event.call # None
    /\ last_event.call[1].base = "a"
    /\ last_event.call[1].head = "b"
    /\ selected_file = MainPath
    /\ lines # <<>>

\* the comparison the last commit selection asked for names something that does
\* not resolve
SelectionUnresolved ==
    /\ last_event.kind = "commit"
    /\ selection_of(last_event.idx) # None
    /\ ~BothResolve(selection_of(last_event.idx)[1].names.base,
                    selection_of(last_event.idx)[1].names.head)

\* the load's target did not resolve
LoadUnresolved ==
    /\ last_event.kind = "load"
    /\ ~resolve_target(target, repo, gh).ok

\* C19: whenever the base or the head name of a requested comparison does not
\* resolve, at the initial load or at a commit selection, the failure is
\* reported as an error and nothing is compared: no diff is computed from a
\* pair of which only one side resolved.
C19_FailureReported ==
    /\ LoadUnresolved =>
          /\ error # None
          /\ phase = "failed"
          /\ last_event.call = None
          /\ files = <<>> /\ lines = <<>>
    /\ SelectionUnresolved =>
          /\ error # None
          /\ last_event.call = None

\* a pull request whose refs resolve to two commits was loaded, and gh failed to
\* return its commits or its review comments
FetchFailed ==
    /\ phase # "new"
    /\ target.kind = "PullRequest"
    /\ gh.info.ok
    /\ BothResolve(gh.info.value.base_ref, gh.info.value.head_ref)
    /\ resolve_ref(repo, gh.info.value.base_ref).value \in repo.commits
    /\ resolve_ref(repo, gh.info.value.head_ref).value \in repo.commits
    /\ ~gh.commits.ok \/ ~gh.comments.ok

\* C20: a failure to fetch the commits or the review comments of a pull request
\* does not abort the load: the diff of its base and head is computed and
\* displayed, with a warning, an empty commit list when the commits failed and
\* no comment line when the comments failed; what was fetched is kept, and a
\* later commit selection compares with it.
C20_FetchFailureDegrades ==
    FetchFailed =>
        /\ phase = "running"
        /\ error = None
        /\ diff_data = diff_commits(repo, resolve_ref(repo, gh.info.value.base_ref).value,
                                    resolve_ref(repo, gh.info.value.head_ref).value).value
        /\ last_event.kind = "load" =>
              /\ Len(files) = Len(diff_data.files)
              /\ \A i \in 1..Len(files) : files[i].path = diff_data.files[i].path
              /\ files # <<>> =>
                    /\ \E i \in 1..Len(files) : selected_file = files[i].path
                    /\ lines = get_lines_for_file(diff_data, selected_file, pr_comments)
        /\ ~gh.commits.ok =>
              /\ commits = <<>>
              /\ pr_commits = <<>>
              /\ "Could not fetch PR commits" \in warnings
        /\ gh.commits.ok =>
              /\ pr_commits = gh.commits.value
              /\ Len(commits) = Len(pr_commits)
        /\ ~gh.comments.ok =>
              /\ pr_comments = None
              /\ all_pr_comments = <<>>
              /\ \A j \in 1..Len(lines) : lines[j].line_type # "comment"
              /\ "Could not fetch PR comments" \in warnings
        /\ gh.comments.ok => all_pr_comments = gh.comments.value
        /\ (last_event.kind = "commit" /\ last_event.idx < 0) =>
              Compared(gh.info.value.base_ref, gh.info.value.head_ref)
        /\ (/\ CommitSelected
            /\ SelectedCommit.parent_sha # None
            /\ BothResolve(SelectedCommit.parent_sha[1], SelectedCommit.sha)) =>
              Compared(SelectedCommit.parent_sha[1], SelectedCommit.sha)

C20_Witness ==
    /\ FetchFailed
    /\ ~gh.comments.ok
    /\ gh.commits.ok
    /\ CommitSelected
    /\ last_event.idx = 1
    /\ last_event.call # None
    /\ selected_file = MainPath
    /\ lines # <<>>
    /\ warnings = {"Could not fetch PR comments"}

----------------------------------------------------------------------------
(* github.rs: group_comments_by_file, as App::new and the commit selection use it *)

\* the comment map of the last load or commit selection
GroupedLast == last_event.call[1].comments[1]

\* the comments that were grouped into it
GroupedInput ==
    IF last_event.kind = "load" \/ last_event.idx < 0 THEN FetchedComments
    ELSE SelectSeq(FetchedComments,
                   LAMBDA c : c.original_commit_id = pr_commits[last_event.idx + 1].sha)

HasGrouped == last_event.call # None /\ last_event.call[1].comments # None

\* a may stand before b: line ascending, a comment without line after those
\* with one, equal lines by ascending id
LineThenId(a, b) ==
    \/ a.line # None /\ b.line = None
    \/ a.line # None /\ b.line # None /\ a.line[1] < b.line[1]
    \/ a.line = b.line /\ a.id <= b.id

\* C21: group_comments_by_file orders the comments of each file by line
\* ascending, the comments without line after those with one, and comments
\* with equal line by ascending id.
C21_LineThenIdNoneLast ==
    HasGrouped =>
        \A p \in DOMAIN GroupedLast :
            \A i, j \in 1..Len(GroupedLast[p]) :
                i < j => LineThenId(GroupedLast[p][i], GroupedLast[p][j])

\* C22: group_comments_by_file partitions its input by the verbatim path: every
\* input comment is exactly once in the map, in the group of exactly its own
\* path, no group is empty, and the groups hold as many comments as the input.
C22_PartitionByPath ==
    HasGrouped =>
        /\ \A i \in 1..Len(GroupedInput) :
              /\ GroupedInput[i].path \in DOMAIN GroupedLast
              /\ \A p \in DOMAIN GroupedLast :
                    Cardinality({k \in 1..Len(GroupedLast[p]) :
                                    GroupedLast[p][k] = GroupedInput[i]})
                        = IF p = GroupedInput[i].path THEN 1 ELSE 0
        /\ \A p \in DOMAIN GroupedLast :
              /\ GroupedLast[p] # <<>>
              /\ \A k \in 1..Len(GroupedLast[p]) : GroupedLast[p][k].path = p
        /\ SumSeq([i \in 1..Len(GroupedInput) |-> 1])
              = Cardinality({<<p, k>> \in (DOMAIN GroupedLast) \X (1..Len(GroupedInput) + 1) :
                                k <= Len(GroupedLast[p])})

C22_Witness ==
    /\ HasGrouped
    /\ last_event.kind = "load"
    /\ DOMAIN GroupedLast = {MainPath, CasePath}
    /\ Len(GroupedLast[MainPath]) = 1
    /\ Len(GroupedLast[CasePath]) = 1

----------------------------------------------------------------------------
(* cli.rs: DiffTarget::parse *)

MaxArgLen == 3

\* char::is_ascii_digit
is_ascii_digit(c) == c \in 48..57

\* a u32 is written as its decimal digits without leading zeros
RECURSIVE StripZeros(_)
StripZeros(digits) ==
    IF Len(digits) > 1 /\ Head(digits) = 48 THEN StripZeros(Tail(digits)) ELSE digits

\* u32::MAX, 4294967295
U32Max == <<52, 50, 57, 52, 57, 54, 55, 50, 57, 53>>

\* a <= b for two numbers written without leading zeros
DecimalLeq(a, b) ==
    \/ Len(a) < Len(b)
    \/ /\ Len(a) = Len(b)
       /\ \/ a = b
          \/ \E i \in 1..Len(a) : a[i] < b[i] /\ \A j \in 1..(i - 1) : a[j] = b[j]

\* str::parse::<u32>: an optional '+', then one or more digits, of a value that
\* fits in 32 bits
parse_u32(s) ==
    LET digits == IF s # <<>> /\ Head(s) = 43 THEN Tail(s) ELSE s
    IN IF s = <<>> THEN Err("Empty")
       ELSE IF digits = <<>> \/ \E i \in 1..Len(digits) : ~is_ascii_digit(digits[i])
       THEN Err("InvalidDigit")
       ELSE IF ~DecimalLeq(StripZeros(digits), U32Max) THEN Err("PosOverflow")
       ELSE Ok(StripZeros(digits))

\* str::strip_prefix('#').unwrap_or(s)
strip_hash(s) == IF s # <<>> /\ Head(s) = HASH THEN Tail(s) ELSE s

\* DiffTarget::parse
DiffTarget_parse(a) ==
    IF a = None THEN [kind |-> "DefaultBranch", name |-> <<>>, number |-> <<>>]
    ELSE LET s == a[1]
             pr_num == parse_u32(strip_hash(s))
         IN IF /\ pr_num.ok
               /\ \/ s # <<>> /\ Head(s) = HASH
                  \/ \A i \in 1..Len(s) : is_ascii_digit(s[i])
            THEN [kind |-> "PullRequest", name |-> <<>>, number |-> pr_num.value]
            ELSE [kind |-> "Ref", name |-> s, number |-> <<>>]

\* the characters of the arguments: '#', '+', '0', '4', 'a'
ArgChars == {HASH, 43, 48, 52, 97}

\* arguments around the width of u32: 4294967295, 4294967296, #4294967296 and
\* 00000000004
WideArgs ==
    {U32Max,
     <<52, 50, 57, 52, 57, 54, 55, 50, 57, 54>>,
     <<HASH, 52, 50, 57, 52, 57, 54, 55, 50, 57, 54>>,
     <<48, 48, 48, 48, 48, 48, 48, 48, 48, 48, 52>>}

\* the command line was read, nothing is parsed yet
InitParse ==
    /\ args \in {None} \cup {Some(s) : s \in SeqsUpTo(ArgChars, MaxArgLen) \cup WideArgs}
    /\ target = NoTarget
    /\ repo = PlainRepo
    /\ gh = [info |-> GhFailed, commits |-> GhFailed, comments |-> GhFailed]
    /\ pr_commits = <<>>
    /\ pr_base_ref = None
    /\ pr_head_ref = None
    /\ commits = <<>>
    /\ diff_title = [text |-> "", ref |-> "", number |-> 0, title |-> ""]
    /\ phase = "args"
    /\ error = None
    /\ warnings = {}
    /\ last_event = [kind |-> "new", idx |-> 0, call |-> None]
    /\ LinesIdle
    /\ TreeIdle

\* App::new: let target = DiffTarget::parse(args.target.as_deref())
parse_target ==
    /\ phase = "args"
    /\ target' = DiffTarget_parse(args)
    /\ phase' = "new"
    /\ last_event' = [kind |-> "parse", idx |-> 0, call |-> None]
    /\ UNCHANGED <<diff_data, all_pr_comments, pr_comments, syntect_err, selected_file, lines,
                   input_files, tree, files, prev_files, runs, repo, gh, pr_commits,
                   pr_base_ref, pr_head_ref, commits, diff_title, args, error, warnings>>

NextParse == parse_target

SpecParse == InitParse /\ [][NextParse]_vars

\* the target was parsed from the argument
Parsed == last_event.kind = "parse"

\* one or more decimal digits
IsDecimal(s) == s # <<>> /\ \A i \in 1..Len(s) : s[i] \in 48..57

\* <digits> or #<digits>
IsRequestForm(s) == IsDecimal(s) \/ (s # <<>> /\ Head(s) = HASH /\ IsDecimal(Tail(s)))

\* C23: DiffTarget::parse returns DefaultBranch for no argument, Ref(s) with s
\* unchanged for every s that is neither <digits> nor #<digits>, and
\* PullRequest(n) only for strings of those two forms, n their decimal value.
C23_ParseForms ==
    Parsed =>
        /\ args = None => target.kind = "DefaultBranch"
        /\ (args # None /\ ~IsRequestForm(args[1])) =>
              target.kind = "Ref" /\ target.name = args[1]
        /\ target.kind = "PullRequest" =>
              /\ args # None
              /\ IsRequestForm(args[1])
              /\ target.number = StripZeros(strip_hash(args[1]))

\* C24: every argument made of decimal digits only, with or without a leading
\* '#', selects a pull request, whatever the magnitude of the number.
C24_DigitsSelectRequest ==
    (Parsed /\ args # None /\ IsRequestForm(args[1])) => target.kind = "PullRequest"

----------------------------------------------------------------------------
(* app.rs: the view after commit selections *)

\* the comments of the map used by the last comparison
GroupedComments == UNION {Range(GroupedLast[p]) : p \in DOMAIN GroupedLast}

\* C25: when a commit of a pull request is selected, with or without parent,
\* the comments used are exactly the review comments whose original_commit_id
\* is the commit's sha, grouped by file: a comment whose commit_id is the
\* commit but whose original_commit_id is not is left out, as is every comment
\* of another commit.
C25_CommentsOfCommit ==
    (CommitSelected /\ last_event.call # None) =>
        /\ last_event.call[1].comments # None
        /\ GroupedComments
              = {c \in Range(FetchedComments) : c.original_commit_id = SelectedCommit.sha}
        /\ GroupedLast
              = group_comments_by_file(
                    SelectSeq(FetchedComments,
                              LAMBDA c : c.original_commit_id = SelectedCommit.sha))

C25_Witness ==
    /\ CommitSelected
    /\ last_event.call # None
    /\ SelectedCommit.sha = "b"
    /\ \E c \in Range(FetchedComments) :
          c.commit_id = "b" /\ c.original_commit_id = "a" /\ c \notin GroupedComments
    /\ \E c \in GroupedComments : c.path = selected_file
    /\ \E j \in 1..Len(lines) : lines[j].line_type = "comment"

----------------------------------------------------------------------------
(* app.rs: the order of the Comment lines of one code line *)

\* the comments of the file's group that match the k-th header or code line of
\* the input, in the order of the group
MatchingOf(k) ==
    IF InAll[k].line_type = "Hunk" THEN <<>>
    ELSE SelectSeq(Grouped, LAMBDA c : Matches(c, InAll[k]))

\* the place in the output of the k-th header or code line
PlaceOf(k) ==
    CHOOSE j \in 1..Len(lines) : lines[j].line_type # "comment" /\ NonCommentsUpTo(j) = k

\* C26: the comments that match one code line have their Comment lines directly
\* after it, consecutively and in the order of the file's grouped list (line
\* ascending, then id ascending); a reply, whose id is greater than that of its
\* parent on the same line, comes after its parent, and a Comment line is
\* flagged is_reply exactly when its comment has in_reply_to_id.
C26_BlockInGroupedOrder ==
    Shown =>
        /\ Len(OutNonComment) = Len(InAll)
        /\ \A k \in 1..Len(InAll) :
              LET m == MatchingOf(k)
              IN /\ Cardinality(BlockAfter(k)) = Len(m)
                 /\ \A n \in 1..Len(m) :
                       /\ lines[PlaceOf(k) + n].line_type = "comment"
                       /\ lines[PlaceOf(k) + n].comment_body = m[n].body
                       /\ lines[PlaceOf(k) + n].comment_is_reply = (m[n].in_reply_to_id # None)
                 /\ \A a, b \in 1..Len(m) :
                       /\ a < b =>
                             \/ m[a].line[1] < m[b].line[1]
                             \/ m[a].line = m[b].line /\ m[a].id < m[b].id
                       /\ (/\ m[b].in_reply_to_id = Some(m[a].id)
                           /\ m[b].id > m[a].id
                           /\ m[b].line = m[a].line) => a < b

\* a reply fetched before its parent, both on one code line, shown after it
C26_Witness ==
    /\ Shown
    /\ Len(all_pr_comments) = 2
    /\ all_pr_comments[1].in_reply_to_id = Some(all_pr_comments[2].id)
    /\ \E k \in 1..Len(InAll) :
          /\ Len(MatchingOf(k)) = 2
          /\ MatchingOf(k)[2] = all_pr_comments[1]
          /\ lines[PlaceOf(k) + 1].comment_is_reply = FALSE
          /\ lines[PlaceOf(k) + 2].comment_is_reply = TRUE

----------------------------------------------------------------------------
(* git/file_tree.rs: flatten_tree *)

\* the number of entries flatten_tree emits for the nodes
RECURSIVE EntriesOf(_)
EntriesOf(nodes) ==
    IF nodes = <<>> THEN 0
    ELSE 1 + (IF Head(nodes).is_folder THEN EntriesOf(Head(nodes).children) ELSE 0)
           + EntriesOf(Tail(nodes))

\* the entries after the first `at` are those of the nodes walked in pre-order,
\* at the given depth: a node, then the walk of a folder's children one level
\* deeper, then the node's next sibling
RECURSIVE WalkedFrom(_, _, _)
WalkedFrom(nodes, depth, at) ==
    IF nodes = <<>> THEN TRUE
    ELSE LET node == Head(nodes)
         IN /\ at + 1 <= Len(files)
            /\ files[at + 1].name = node.name
            /\ files[at + 1].path = node.path
            /\ files[at + 1].is_folder = node.is_folder
            /\ files[at + 1].depth = depth
            /\ files[at + 1].is_expanded
            /\ node.is_folder => WalkedFrom(node.children, depth + 1, at + 1)
            /\ WalkedFrom(Tail(nodes), depth,
                          at + 1 + (IF node.is_folder THEN EntriesOf(node.children) ELSE 0))

PreOrderWalk ==
    /\ Len(files) = EntriesOf(tree)
    /\ WalkedFrom(tree, 0, 0)
    /\ tree = <<>> => files = <<>>

FoldersModified == \A i \in 1..Len(files) : files[i].is_folder => files[i].status = "modified"

\* C27: flatten_tree emits the tree in pre-order: a folder's entry is directly
\* followed by the entries of its children, before its next sibling; top-level
\* entries have depth 0 and a child its parent's depth + 1; every entry has
\* is_expanded; folder entries have the status "modified"; an empty tree gives
\* no entry.
C27_PreOrderFlatten == Built => (PreOrderWalk /\ FoldersModified)

----------------------------------------------------------------------------
(* app.rs: the window's lines, selected file and file list *)

\* the last load or commit selection computed a diff, which the file list shows
DiffShown ==
    /\ phase = "running"
    /\ last_event.call # None
    /\ diff_commits(repo, last_event.call[1].base, last_event.call[1].head).ok

ShownDiff == diff_commits(repo, last_event.call[1].base, last_event.call[1].head).value

\* C28: after any sequence of load, commit selection, file selection and
\* settings events, the lines displayed for the selected file are those of the
\* diff and of the comments of the file list on display: after a commit was
\* selected, a file selection or a settings change shows that commit's lines
\* with that commit's comments.
C28_LinesOfShownDiff ==
    (DiffShown /\ files # <<>>) =>
        /\ \A i \in 1..Len(files) :
              files[i].path \in {ShownDiff.files[k].path : k \in 1..Len(ShownDiff.files)}
        /\ \E i \in 1..Len(files) : files[i].path = selected_file
        /\ lines = get_lines_for_file(ShownDiff, selected_file, last_event.call[1].comments)

\* the selection of idx cannot be carried out: no commit of that index, no
\* recorded ref, a name that does not resolve, or a diff that fails
SelectionFails(idx) == diff_result(idx) = None \/ ~diff_result(idx)[1].result.ok

\* C29: a commit selection that cannot be carried out leaves the whole view as
\* it was: the file list, the selected file, the lines, and the cached diff and
\* comments.
C29_FailedSelectionKeepsView ==
    [][\A idx \in -1..MaxIndex :
          (on_commit_selected(idx) /\ SelectionFails(idx)) =>
              UNCHANGED <<files, tree, selected_file, lines, diff_data, pr_comments,
                          all_pr_comments>>]_vars

\* a selection whose diff failed, with the lines of the earlier diff on display
C29_Witness ==
    /\ phase = "running"
    /\ last_event.kind = "commit"
    /\ last_event.call # None
    /\ ~diff_commits(repo, last_event.call[1].base, last_event.call[1].head).ok
    /\ files # <<>>
    /\ lines # <<>>

\* C30: after every successful initial load and every successful commit
\* selection (here: every one that differs from the event before it), the
\* selected file is the first non-folder entry of the new file list and the
\* lines are the interleaving for that file; when the new diff has no file, no
\* lines of a diff shown before remain on display.
C30_ViewOfNewList ==
    [][(/\ last_event' # last_event
        /\ phase' = "running"
        /\ last_event'.call # None
        /\ last_event'.call[1].base \in repo'.commits
        /\ last_event'.call[1].head \in repo'.commits) =>
          (/\ files' = flatten_tree(tree', 0)
           /\ IF first_file_of(files') # None
              THEN /\ selected_file' = first_file_of(files')[1].path
                   /\ lines' = get_lines_for_file(
                                  diff_commits(repo', last_event'.call[1].base,
                                               last_event'.call[1].head).value,
                                  selected_file', last_event'.call[1].comments)
              ELSE lines' = <<>>)]_vars

====
